---- MODULE Spec2Model ----
(***************************************************************************)
(* A model of the osus beatmap library: the sorted-timestamp utilities     *)
(* (lib.rs), the timing-point and slider algorithms (algos/), and the      *)
(* .osu parser and serializer (file/beatmap/).                             *)
(*                                                                         *)
(* Timestamps are f64 milliseconds in the source; they are modelled as     *)
(* integers (whole milliseconds), which keeps every comparison the code    *)
(* makes (<, <=, total_cmp, |a - b| <= tolerance) exact.                   *)
(***************************************************************************)
EXTENDS Integers, Sequences, FiniteSets, TLC

VARIABLES
    pc,             \* control location of the operation under study
    fst, snd,       \* the two slices given to interleave_timestamped
    self0, self1,   \* InterleavedTimestampedIterator.0 and .1 (what is left)
    interleaved,    \* the items the interleaving iterator has yielded so far
    slice,          \* the [T] that between / at_timestamp / group_timestamped read
    time_range,     \* between's argument: [start_bound, end_bound]
    timestamp,      \* at_timestamp's argument
    found,          \* what between / at_timestamp returned
    grest,          \* GroupedTimestampedIterator.0 (what is left)
    groups,         \* the groups the grouping iterator has yielded so far
    hit_object,     \* a HitObject, as far as its type byte is concerned
    type_byte,      \* the third field of a hit object line, a u8
    decoded,        \* what parse_hit_object made of a written type_byte
    reencoded,      \* what raw_object_type made of a parsed hit_object
    timing_points,  \* the timing points given to remove_duplicates
    unduped,        \* what remove_duplicates returned
    hit_object_list, \* the hit objects of the map the timing points belong to
    result_points,  \* what remove_useless_speed_changes returned
    control_points, \* the slider points given to convert_to_bezier_anchors
    anchors,        \* what convert_to_bezier_anchors returned
    slider_points,  \* the curve points given to convert_slider_points_to_legacy
    segments,       \* the segments convert_slider_points_to_legacy cut
    legacy_points,  \* what convert_slider_points_to_legacy returned
    curve,          \* a slider's first curve type and curve points
    curve_text,     \* what serialize_curve_points wrote for curve
    curve_parsed,   \* what parse_curve_points made of curve_text
    text,           \* the lines of a .osu file
    beatmap,        \* what parse_osu_file made of text
    written,        \* what serialize_beatmap_file wrote for beatmap
    reparsed,       \* what parse_osu_file made of written
    variant_text,   \* a second .osu file, made from text by moving or
                    \* removing lines
    variant_beatmap \* what parse_osu_file made of variant_text

vars == <<pc, fst, snd, self0, self1, interleaved, slice, time_range, timestamp,
          found, grest, groups, hit_object, type_byte, decoded, reencoded,
          timing_points, unduped, hit_object_list, result_points,
          control_points, anchors, slider_points,
          segments, legacy_points, curve, curve_text, curve_parsed, text,
          beatmap, written, reparsed, variant_text, variant_beatmap>>

interleaveVars == <<fst, snd, self0, self1, interleaved>>
sliceVars == <<slice, time_range, timestamp, found>>
groupVars == <<grest, groups>>
indexVars == <<interleaveVars, sliceVars, groupVars>>
typeVars == <<hit_object, type_byte, decoded, reencoded>>
dedupVars == <<timing_points, unduped, hit_object_list, result_points>>
bezierVars == <<control_points, anchors>>
legacyVars == <<slider_points, segments, legacy_points>>
curveVars == <<curve, curve_text, curve_parsed>>
fileVars == <<text, beatmap, written, reparsed>>
variantVars == <<variant_text, variant_beatmap>>
otherVars ==
    <<typeVars, dedupVars, bezierVars, legacyVars, curveVars, fileVars, variantVars>>
notTypeVars ==
    <<indexVars, dedupVars, bezierVars, legacyVars, curveVars, fileVars, variantVars>>
notDedupVars ==
    <<indexVars, typeVars, bezierVars, legacyVars, curveVars, fileVars, variantVars>>
notBezierVars ==
    <<indexVars, typeVars, dedupVars, legacyVars, curveVars, fileVars, variantVars>>
notLegacyVars ==
    <<indexVars, typeVars, dedupVars, bezierVars, curveVars, fileVars, variantVars>>
notCurveVars ==
    <<indexVars, typeVars, dedupVars, bezierVars, legacyVars, fileVars, variantVars>>
notFileVars ==
    <<indexVars, typeVars, dedupVars, bezierVars, legacyVars, curveVars, variantVars>>
notVariantVars ==
    <<indexVars, typeVars, dedupVars, bezierVars, legacyVars, curveVars, fileVars>>

(***************************************************************************)
(* Bounds of the model.                                                    *)
(***************************************************************************)
MaxLen == 3         \* longest slice
MaxTime == 3        \* timestamps range over 0..MaxTime

Times == 0..MaxTime

(***************************************************************************)
(* Generic helpers.                                                        *)
(***************************************************************************)
None == <<>>
Some(x) == <<x>>

Abs(x) == IF x < 0 THEN -x ELSE x

SeqsUpTo(S, n) == UNION {[1..k -> S] : k \in 0..n}

\* Timestamped elements: the timestamp plus the position in the slice the
\* element came from, so that two elements with one timestamp stay distinct.
Elem(t, i) == [time |-> t, idx |-> i]
ElemsOf(ts) == [i \in 1..Len(ts) |-> Elem(ts[i], i)]

IsSortedByTime(s) == \A i \in 1..Len(s) - 1 : s[i].time <= s[i + 1].time

SlicesOver(T, n) == {ElemsOf(ts) : ts \in SeqsUpTo(T, n)}
SortedSlicesOver(T, n) == {s \in SlicesOver(T, n) : IsSortedByTime(s)}
SortedSlices(n) == SortedSlicesOver(Times, n)

\* f64::NAN, which a Timestamp can hold; it stands outside the numbers of the
\* model as an integer no timestamp takes.  Every operation on it is NaN
\* and every comparison with it is false.
NaN == -1000 * 1000

\* lib.rs: is_close
is_close(a, b, tolerance) ==
    a # NaN /\ b # NaN /\ Abs(a - b) <= tolerance

(***************************************************************************)
(* InterleavedTimestampedIterator (lib.rs) and the identical               *)
(* HitObjectTimingPointIterator (file/beatmap/iters.rs).                   *)
(* An item is Ok(&T) for the first slice and Err(&U) for the second.       *)
(***************************************************************************)
Ok(x) == [side |-> "Ok", elem |-> x]
Err(x) == [side |-> "Err", elem |-> x]

\* The comparison of the two heads: the first slice's head is taken only when
\* it is strictly earlier.
TakeFirstReversed(a, b) == a.time > b.time
TakeFirstOnTies(a, b) == a.time <= b.time
TakeFirst(a, b) == a.time < b.time

InterleavedNext ==
    /\ pc = "iterating"
    /\ \/ /\ self0 # <<>> /\ self1 # <<>>
          /\ IF TakeFirst(Head(self0), Head(self1))
                THEN /\ self0' = Tail(self0)
                     /\ interleaved' = Append(interleaved, Ok(Head(self0)))
                     /\ UNCHANGED self1
                ELSE /\ self1' = Tail(self1)
                     /\ interleaved' = Append(interleaved, Err(Head(self1)))
                     /\ UNCHANGED self0
          /\ UNCHANGED pc
       \/ /\ self0 # <<>> /\ self1 = <<>>
          /\ self0' = Tail(self0)
          /\ interleaved' = Append(interleaved, Ok(Head(self0)))
          /\ UNCHANGED <<self1, pc>>
       \/ /\ self0 = <<>> /\ self1 # <<>>
          /\ self1' = Tail(self1)
          /\ interleaved' = Append(interleaved, Err(Head(self1)))
          /\ UNCHANGED <<self0, pc>>
       \/ /\ self0 = <<>> /\ self1 = <<>>
          /\ pc' = "ended"
          /\ UNCHANGED <<self0, self1, interleaved>>
    /\ UNCHANGED <<fst, snd, sliceVars, groupVars, otherVars>>

InterleaveIdle ==
    /\ fst = <<>> /\ snd = <<>> /\ self0 = <<>> /\ self1 = <<>>
    /\ interleaved = <<>>
SliceIdle ==
    /\ slice = <<>> /\ time_range = <<>> /\ timestamp = 0 /\ found = <<>>
GroupIdle ==
    /\ grest = <<>> /\ groups = <<>>
IndexIdle == InterleaveIdle /\ SliceIdle /\ GroupIdle
TypeIdle ==
    /\ hit_object = <<>> /\ type_byte = <<>> /\ decoded = <<>>
    /\ reencoded = <<>>
DedupIdle ==
    /\ timing_points = <<>> /\ unduped = <<>>
    /\ hit_object_list = <<>> /\ result_points = <<>>
BezierIdle ==
    /\ control_points = <<>> /\ anchors = <<>>
CurveIdle ==
    /\ curve = <<>> /\ curve_text = <<>> /\ curve_parsed = <<>>
FileIdle ==
    /\ text = <<>> /\ beatmap = <<>> /\ written = <<>> /\ reparsed = <<>>
LegacyIdle ==
    slider_points = <<>> /\ segments = <<>> /\ legacy_points = <<>>
VariantIdle ==
    variant_text = <<>> /\ variant_beatmap = <<>>
OtherIdle ==
    /\ TypeIdle /\ DedupIdle /\ BezierIdle /\ LegacyIdle
    /\ CurveIdle /\ FileIdle /\ VariantIdle
NotTypeIdle ==
    /\ IndexIdle /\ DedupIdle /\ BezierIdle /\ LegacyIdle
    /\ CurveIdle /\ FileIdle /\ VariantIdle
NotDedupIdle ==
    /\ IndexIdle /\ TypeIdle /\ BezierIdle /\ LegacyIdle
    /\ CurveIdle /\ FileIdle /\ VariantIdle
NotBezierIdle ==
    /\ IndexIdle /\ TypeIdle /\ DedupIdle /\ LegacyIdle
    /\ CurveIdle /\ FileIdle /\ VariantIdle
NotLegacyIdle ==
    /\ IndexIdle /\ TypeIdle /\ DedupIdle /\ BezierIdle
    /\ CurveIdle /\ FileIdle /\ VariantIdle
NotCurveIdle ==
    /\ IndexIdle /\ TypeIdle /\ DedupIdle /\ BezierIdle
    /\ LegacyIdle /\ FileIdle /\ VariantIdle
NotFileIdle ==
    /\ IndexIdle /\ TypeIdle /\ DedupIdle /\ BezierIdle
    /\ LegacyIdle /\ CurveIdle /\ VariantIdle
NotVariantIdle ==
    /\ IndexIdle /\ TypeIdle /\ DedupIdle /\ BezierIdle
    /\ LegacyIdle /\ CurveIdle /\ FileIdle

\* interleave_timestamped: the iterator starts on the two whole slices.
InitInterleave ==
    /\ pc = "iterating"
    /\ fst \in SortedSlices(MaxLen)
    /\ snd \in SortedSlices(MaxLen)
    /\ self0 = fst /\ self1 = snd
    /\ interleaved = <<>>
    /\ SliceIdle /\ GroupIdle /\ OtherIdle

SpecInterleave == InitInterleave /\ [][InterleavedNext]_vars

(***************************************************************************)
(* Claims about the interleaving iterator.                                 *)
(***************************************************************************)
SideOf(items, side) ==
    LET F[i \in 0..Len(items)] ==
            IF i = 0 THEN <<>>
            ELSE IF items[i].side = side THEN Append(F[i - 1], items[i].elem)
                 ELSE F[i - 1]
    IN F[Len(items)]

\* C4: interleaving two slices sorted by timestamp, of lengths m and n, yields
\* exactly m + n items and then ends (not before); the items are in
\* non-decreasing timestamp order and hold every element of each input exactly
\* once, in its original relative order.
C4_InterleaveMerges ==
    /\ \A i \in 1..Len(interleaved) - 1 :
           interleaved[i].elem.time <= interleaved[i + 1].elem.time
    /\ Len(interleaved) + Len(self0) + Len(self1) = Len(fst) + Len(snd)
    /\ pc = "ended" =>
           /\ Len(interleaved) = Len(fst) + Len(snd)
           /\ SideOf(interleaved, "Ok") = fst
           /\ SideOf(interleaved, "Err") = snd

C4_Witness ==
    /\ pc = "ended"
    /\ Len(fst) = 2 /\ Len(snd) = 2
    /\ Len(interleaved) = 4
    /\ interleaved[1].side = "Err" /\ interleaved[2].side = "Ok"
    /\ interleaved[3].side = "Err" /\ interleaved[4].side = "Ok"

\* Both heads are present and carry exactly the same timestamp.
HeadsTie == self0 # <<>> /\ self1 # <<>> /\ Head(self0).time = Head(self1).time

\* C5 as stated: when the two heads have exactly equal timestamps, the first
\* (left) input's element is yielded before the second (right) input's.
C5_LeftWinsTies ==
    [][HeadsTie => interleaved' = Append(interleaved, Ok(Head(self0)))]_vars

\* C5 as the code has it: when the two heads have exactly equal timestamps,
\* the second (right) input's element is yielded before the first input's.
C5_RightWinsTies ==
    [][HeadsTie => /\ interleaved' = Append(interleaved, Err(Head(self1)))
                   /\ self0' = self0]_vars

C5_Witness ==
    \E i \in 1..Len(interleaved) - 1 :
        /\ interleaved[i].side = "Err" /\ interleaved[i + 1].side = "Ok"
        /\ interleaved[i].elem.time = interleaved[i + 1].elem.time

(***************************************************************************)
(* <[T]>::binary_search_by and partition_point, as the standard library    *)
(* runs them.  cmp is the comparator's answer for each element in slice    *)
(* order; indices are 0-based as in the source.                            *)
(***************************************************************************)
RECURSIVE BinarySearchLoop(_, _, _)
BinarySearchLoop(cmp, base, size) ==
    IF size > 1
    THEN LET half == size \div 2
             mid == base + half
         IN BinarySearchLoop(cmp,
                             IF cmp[mid + 1] = "Greater" THEN base ELSE mid,
                             size - half)
    ELSE base

binary_search_by(cmp) ==
    IF Len(cmp) = 0 THEN [ok |-> FALSE, index |-> 0]
    ELSE LET base == BinarySearchLoop(cmp, 0, Len(cmp))
             c == cmp[base + 1]
         IN IF c = "Equal" THEN [ok |-> TRUE, index |-> base]
            ELSE [ok |-> FALSE,
                  index |-> base + (IF c = "Less" THEN 1 ELSE 0)]

\* pred is the predicate's answer for each element in slice order.
partition_point(pred) ==
    binary_search_by([i \in 1..Len(pred) |->
                         IF pred[i] THEN "Less" ELSE "Greater"]).index

f64_total_cmp(a, b) ==
    IF a < b THEN "Less" ELSE IF a > b THEN "Greater" ELSE "Equal"

(***************************************************************************)
(* TimestampedSlice::between (lib.rs).  A bound is Included(v), Excluded(v)*)
(* or Unbounded; the result is the sub-slice, or the panic of the slice    *)
(* index when start_index > end_index.                                     *)
(***************************************************************************)
Included(v) == [kind |-> "Included", v |-> v]
Excluded(v) == [kind |-> "Excluded", v |-> v]
Unbounded == [kind |-> "Unbounded", v |-> 0]

Slice(items) == [kind |-> "slice", items |-> items]
Panic == [kind |-> "panic", items |-> <<>>]

StartIndex(self, b) ==
    CASE b.kind = "Included" ->
             partition_point([i \in 1..Len(self) |-> self[i].time < b.v])
      [] b.kind = "Excluded" ->
             partition_point([i \in 1..Len(self) |-> self[i].time <= b.v])
      [] b.kind = "Unbounded" -> 0

EndIndex(self, b) ==
    CASE b.kind = "Included" ->
             partition_point([i \in 1..Len(self) |-> self[i].time <= b.v])
      [] b.kind = "Excluded" ->
             partition_point([i \in 1..Len(self) |-> self[i].time < b.v])
      [] b.kind = "Unbounded" -> Len(self)

between(self, range) ==
    LET start_index == StartIndex(self, range.start_bound)
        end_index == EndIndex(self, range.end_bound)
    IN IF start_index > end_index THEN Panic
       ELSE Slice(SubSeq(self, start_index + 1, end_index))

\* Timestamped::basically_at: within 2.0 ms.
BasicallyAtTolerance == 2
basically_at_strict(o, t) == Abs(o.time - t) < BasicallyAtTolerance
basically_at(o, t) == is_close(o.time, t, BasicallyAtTolerance)

\* TimestampedSlice::at_timestamp
at_timestamp(self, t) ==
    LET r == binary_search_by([i \in 1..Len(self) |->
                 IF basically_at(self[i], t) THEN "Equal"
                 ELSE f64_total_cmp(self[i].time, t)])
    IN IF r.ok /\ r.index < Len(self) THEN Some(self[r.index + 1]) ELSE None

(***************************************************************************)
(* The calls, as steps: the arguments are fixed by the initial state.      *)
(***************************************************************************)
RangeTimes == (-1)..(MaxTime + 1)
Bounds == {Included(v) : v \in RangeTimes} \cup {Excluded(v) : v \in RangeTimes}
              \cup {Unbounded}
Ranges == [start_bound : Bounds, end_bound : Bounds]

Between ==
    /\ pc = "call"
    /\ found' = between(slice, time_range)
    /\ pc' = "returned"
    /\ UNCHANGED <<slice, time_range, timestamp, interleaveVars, groupVars,
                   otherVars>>

InitBetween ==
    /\ pc = "call"
    /\ slice \in SortedSlices(MaxLen)
    /\ time_range \in Ranges
    /\ timestamp = 0 /\ found = <<>>
    /\ InterleaveIdle /\ GroupIdle /\ OtherIdle

SpecBetween == InitBetween /\ [][Between]_vars

MaxAtTime == 10     \* at_timestamp's slices hold timestamps 0..MaxAtTime
AtTimes == 0..MaxAtTime
AtQueries == (-3)..(MaxAtTime + 3)

AtTimestamp ==
    /\ pc = "call"
    /\ found' = at_timestamp(slice, timestamp)
    /\ pc' = "returned"
    /\ UNCHANGED <<slice, time_range, timestamp, interleaveVars, groupVars,
                   otherVars>>

InitAt ==
    /\ pc = "call"
    /\ slice \in SortedSlicesOver(AtTimes, MaxLen)
    /\ timestamp \in AtQueries
    /\ time_range = <<>> /\ found = <<>>
    /\ InterleaveIdle /\ GroupIdle /\ OtherIdle

SpecAt == InitAt /\ [][AtTimestamp]_vars

(***************************************************************************)
(* Claims about between and at_timestamp.                                  *)
(***************************************************************************)
SatisfiesStart(t, b) ==
    CASE b.kind = "Included" -> b.v <= t
      [] b.kind = "Excluded" -> b.v < t
      [] b.kind = "Unbounded" -> TRUE
SatisfiesEnd(t, b) ==
    CASE b.kind = "Included" -> t <= b.v
      [] b.kind = "Excluded" -> t < b.v
      [] b.kind = "Unbounded" -> TRUE

\* The elements a linear scan of the slice selects, in slice order.
LinearScan(self, range) ==
    LET F[i \in 0..Len(self)] ==
            IF i = 0 THEN <<>>
            ELSE IF /\ SatisfiesStart(self[i].time, range.start_bound)
                    /\ SatisfiesEnd(self[i].time, range.end_bound)
                 THEN Append(F[i - 1], self[i])
                 ELSE F[i - 1]
    IN F[Len(self)]

StartNotAfterEnd(range) ==
    \/ range.start_bound.kind = "Unbounded"
    \/ range.end_bound.kind = "Unbounded"
    \/ range.start_bound.v <= range.end_bound.v

\* C6: for a slice sorted by timestamp and a range whose start is not after
\* its end (each bound inclusive, exclusive or unbounded), between returns
\* exactly the elements whose timestamps satisfy the range, the ones a linear
\* scan selects.
C6_BetweenIsLinearScan ==
    (pc = "returned" /\ StartNotAfterEnd(time_range))
        => found = Slice(LinearScan(slice, time_range))

\* The part of C6 the code does keep: the half-open range lo..hi (and every
\* range that is not exclusive at both ends of one value).
C6_HalfOpenHolds ==
    (/\ pc = "returned"
     /\ StartNotAfterEnd(time_range)
     /\ time_range.start_bound.kind = "Included"
     /\ time_range.end_bound.kind = "Excluded")
        => found = Slice(LinearScan(slice, time_range))

\* Elements spaced more than twice the tolerance apart.
Spaced(self) ==
    \A i \in 1..Len(self) - 1 :
        self[i + 1].time - self[i].time > 2 * BasicallyAtTolerance

WithinTolerance(self, t) ==
    {i \in 1..Len(self) : Abs(self[i].time - t) <= BasicallyAtTolerance}

\* C7: on a sorted slice whose elements are spaced more than twice the
\* tolerance apart, at_timestamp(t) returns the one element within the
\* tolerance of t when there is one, and nothing when there is none.
C7_NearMatch ==
    (pc = "returned" /\ Spaced(slice)) =>
        /\ \A i \in WithinTolerance(slice, timestamp) : found = Some(slice[i])
        /\ WithinTolerance(slice, timestamp) = {} => found = None

\* A three-element spaced slice whose last element is found at the very edge
\* of the tolerance.
C7_Witness ==
    /\ pc = "returned"
    /\ Len(slice) = 3 /\ Spaced(slice)
    /\ found = Some(slice[3])
    /\ timestamp = slice[3].time - BasicallyAtTolerance

(***************************************************************************)
(* GroupedTimestampedIterator and GroupedTimestampedIteratorMut (lib.rs):  *)
(* both count the leading elements close to the first one and split there. *)
(***************************************************************************)
GroupTolerance == 1

\* take_while(p).count(): the length of the longest prefix whose elements all
\* satisfy p; p is given as the answers in slice order.
RECURSIVE TakeWhileCount(_, _)
TakeWhileCount(p, i) ==
    IF i <= Len(p) /\ p[i] THEN 1 + TakeWhileCount(p, i + 1) ELSE 0

GroupCountPairwise(self) ==
    TakeWhileCount([i \in 1..Len(self) |->
        i = 1 \/ is_close(self[i].time, self[i - 1].time, GroupTolerance)], 1)
GroupCount(self) ==
    TakeWhileCount([i \in 1..Len(self) |->
        is_close(self[i].time, self[1].time, GroupTolerance)], 1)

\* The model follows the iterator for one call more than the slice has
\* elements.
GroupedNext ==
    /\ pc = "iterating"
    /\ Len(groups) <= Len(slice)
    /\ IF grest # <<>>
       THEN LET count == GroupCount(grest)
            IN /\ groups' = Append(groups, SubSeq(grest, 1, count))
               /\ grest' = SubSeq(grest, count + 1, Len(grest))
               /\ UNCHANGED pc
       ELSE /\ pc' = "ended"
            /\ UNCHANGED <<grest, groups>>
    /\ UNCHANGED <<interleaveVars, sliceVars, otherVars>>

\* group_timestamped / group_timestamped_mut: the iterator starts on the
\* whole slice, which the caller may or may not have sorted.
InitGroup ==
    /\ pc = "iterating"
    /\ slice \in SlicesOver(Times, MaxLen)
    /\ grest = slice /\ groups = <<>>
    /\ time_range = <<>> /\ timestamp = 0 /\ found = <<>>
    /\ InterleaveIdle /\ OtherIdle

SpecGroup == InitGroup /\ [][GroupedNext]_vars

\* The same iterator on slices whose timestamps may be NaN, and called again
\* as long as it can be.
InitGroupNaN ==
    /\ pc = "iterating"
    /\ slice \in SlicesOver(Times \cup {NaN}, MaxLen)
    /\ grest = slice /\ groups = <<>>
    /\ time_range = <<>> /\ timestamp = 0 /\ found = <<>>
    /\ InterleaveIdle /\ OtherIdle

SpecGroupNaN ==
    InitGroupNaN /\ [][GroupedNext]_vars /\ WF_vars(GroupedNext)

RECURSIVE Concat(_)
Concat(ss) == IF ss = <<>> THEN <<>> ELSE Head(ss) \o Concat(Tail(ss))

\* C8: grouping a sorted slice by closeness yields contiguous runs in which
\* every element is within the tolerance of the run's first element, and each
\* run is maximal: the element after a run is farther than the tolerance from
\* that run's first element.
C8_GroupsAnchoredAndMaximal ==
    IsSortedByTime(slice) =>
        /\ Concat(groups) \o grest = slice
        /\ \A g \in 1..Len(groups) :
               /\ groups[g] # <<>>
               /\ \A i \in 1..Len(groups[g]) :
                      Abs(groups[g][i].time - groups[g][1].time) <= GroupTolerance
               /\ LET after == Concat(SubSeq(groups, g + 1, Len(groups))) \o grest
                  IN after # <<>> =>
                         Abs(after[1].time - groups[g][1].time) > GroupTolerance

\* A run of two followed by a run whose first element is within the tolerance
\* of its neighbour, but not of the first run's first element.
C8_Witness ==
    /\ pc = "ended" /\ IsSortedByTime(slice)
    /\ Len(groups) = 2 /\ Len(groups[1]) = 2
    /\ groups[2][1].time - groups[1][2].time <= GroupTolerance
    /\ groups[1][2].time > groups[1][1].time

(***************************************************************************)
(* The hit object type byte (beatmap.rs, parsing.rs).  A u8: one bit for   *)
(* the kind of object, bit 2 for "new combo", bits 4..6 for the number of  *)
(* combo colours to skip.                                                  *)
(***************************************************************************)
U8 == 0..255

Bit(x, k) == (x \div (2 ^ k)) % 2
BitAnd(a, b) ==
    LET acc[k \in 0..8] ==
            IF k = 8 THEN 0
            ELSE Bit(a, k) * Bit(b, k) * (2 ^ k) + acc[k + 1]
    IN acc[0]
BitOr(a, b) ==
    LET acc[k \in 0..8] ==
            IF k = 8 THEN 0
            ELSE (IF Bit(a, k) + Bit(b, k) > 0 THEN 2 ^ k ELSE 0) + acc[k + 1]
    IN acc[0]
Shl(a, k) == (a * (2 ^ k)) % 256
Shr(a, k) == a \div (2 ^ k)

RAW_TYPE_HIT_CIRCLE == 0
RAW_TYPE_SLIDER == 1
RAW_TYPE_SPINNER == 3
RAW_TYPE_OSU_MANIA_HOLD == 7
RAW_NEW_COMBO == 2

HitObjectType == {"HitCircle", "Slider", "Spinner", "Hold"}

raw_is_base_type(raw_object_type, base_type) ==
    BitAnd(raw_object_type, Shl(1, base_type)) > 0
raw_is_hit_circle(raw_object_type) ==
    raw_is_base_type(raw_object_type, RAW_TYPE_HIT_CIRCLE)
raw_is_slider(raw_object_type) ==
    raw_is_base_type(raw_object_type, RAW_TYPE_SLIDER)
raw_is_spinner(raw_object_type) ==
    raw_is_base_type(raw_object_type, RAW_TYPE_SPINNER)
raw_is_osu_mania_hold(raw_object_type) ==
    raw_is_base_type(raw_object_type, RAW_TYPE_OSU_MANIA_HOLD)
raw_is_new_combo(raw_object_type) ==
    raw_is_base_type(raw_object_type, RAW_NEW_COMBO)

RawBaseType(object_type) ==
    CASE object_type = "HitCircle" -> RAW_TYPE_HIT_CIRCLE
      [] object_type = "Slider" -> RAW_TYPE_SLIDER
      [] object_type = "Spinner" -> RAW_TYPE_SPINNER
      [] object_type = "Hold" -> RAW_TYPE_OSU_MANIA_HOLD

\* raw_object_type with the skip count cut to two bits instead of three.
raw_object_type_two_bit_skip(self) ==
    LET rt == RawBaseType(self.object_type)
        ccskip == IF self.combo_color_skip = None THEN 0
                  ELSE BitOr(Shl(1, RAW_NEW_COMBO),
                             Shl(BitAnd(self.combo_color_skip[1], 3), 4))
    IN BitOr(Shl(1, rt), ccskip)

\* HitObject::raw_object_type
raw_object_type(self) ==
    LET rt == RawBaseType(self.object_type)
        ccskip == IF self.combo_color_skip = None THEN 0
                  ELSE BitOr(Shl(1, RAW_NEW_COMBO),
                             Shl(BitAnd(self.combo_color_skip[1], 7), 4))
    IN BitOr(Shl(1, rt), ccskip)

\* parse_hit_object, as far as the type byte decides the outcome: the kind
\* of object is the first of circle, slider, spinner, hold whose bit is set,
\* the combo marker is bits 4..6 when bit 2 is set.
ParseObjectType(object_type) ==
    LET kind == IF raw_is_hit_circle(object_type) THEN "HitCircle"
                ELSE IF raw_is_slider(object_type) THEN "Slider"
                ELSE IF raw_is_spinner(object_type) THEN "Spinner"
                ELSE IF raw_is_osu_mania_hold(object_type) THEN "Hold"
                ELSE "UnknownHitObjectType"
        combo_color_skip ==
            IF raw_is_new_combo(object_type)
            THEN Some(Shr(BitAnd(object_type, 112), 4))
            ELSE None
    IN IF kind = "UnknownHitObjectType"
       THEN [ok |-> FALSE, err |-> kind]
       ELSE [ok |-> TRUE,
             value |-> [object_type |-> kind,
                        combo_color_skip |-> combo_color_skip]]

\* The combo markers a HitObject can hold: Option<u8>, here up to 15.
ComboColorSkips == {None} \cup {Some(n) : n \in 0..15}
HitObjectTypes ==
    [object_type : HitObjectType, combo_color_skip : ComboColorSkips]

\* serialize_hit_object writes the byte of a hit object.
WriteTypeByte ==
    /\ pc = "write"
    /\ type_byte' = raw_object_type(hit_object)
    /\ pc' = "parse"
    /\ UNCHANGED <<hit_object, decoded, reencoded>>
    /\ UNCHANGED notTypeVars

\* parse_hit_object reads the byte that was written.
ParseWrittenTypeByte ==
    /\ pc = "parse"
    /\ decoded' = ParseObjectType(type_byte)
    /\ pc' = "done"
    /\ UNCHANGED <<hit_object, type_byte, reencoded>>
    /\ UNCHANGED notTypeVars

\* parse_hit_object reads a byte found in a file.
ParseTypeByte ==
    /\ pc = "parse_file"
    /\ LET parsed == ParseObjectType(type_byte)
       IN /\ hit_object' = parsed
          /\ pc' = IF parsed.ok THEN "write_back" ELSE "rejected"
    /\ UNCHANGED <<type_byte, decoded, reencoded>>
    /\ UNCHANGED notTypeVars

\* serialize_hit_object writes the byte of the hit object that was parsed.
WriteBackTypeByte ==
    /\ pc = "write_back"
    /\ reencoded' = raw_object_type(hit_object.value)
    /\ pc' = "done"
    /\ UNCHANGED <<hit_object, type_byte, decoded>>
    /\ UNCHANGED notTypeVars

TypeByteNext ==
    \/ WriteTypeByte
    \/ ParseWrittenTypeByte
    \/ ParseTypeByte
    \/ WriteBackTypeByte

InitTypeByte ==
    /\ \/ /\ pc = "write"
          /\ hit_object \in HitObjectTypes
          /\ type_byte = <<>>
       \/ /\ pc = "parse_file"
          /\ type_byte \in U8
          /\ hit_object = <<>>
    /\ decoded = <<>> /\ reencoded = <<>>
    /\ NotTypeIdle

SpecTypeByte == InitTypeByte /\ [][TypeByteNext]_vars

(***************************************************************************)
(* Claims about the type byte.                                             *)
(***************************************************************************)
CanonicalSkip(skip) == skip = None \/ skip[1] \in 0..7

\* C3: for every variant and every combo marker that is None or 0..7,
\* decoding the byte raw_object_type returns, the way parse_hit_object
\* decodes it, gives the same variant and the same combo marker.
C3_TypeByteRoundTrip ==
    (decoded # <<>> /\ CanonicalSkip(hit_object.combo_color_skip))
        => /\ decoded.ok
           /\ decoded.value.object_type = hit_object.object_type
           /\ decoded.value.combo_color_skip = hit_object.combo_color_skip

C3_Witness ==
    /\ decoded # <<>>
    /\ hit_object.object_type = "Hold"
    /\ hit_object.combo_color_skip = Some(5)
    /\ type_byte = 212
    /\ decoded.ok /\ decoded.value.combo_color_skip = Some(5)

(***************************************************************************)
(* Timing points and remove_duplicates (beatmap.rs, algos/mod.rs).         *)
(*                                                                         *)
(* beat_length is an f64.  The model counts it in steps of                 *)
(* f64::EPSILON / 2 below -0.5, where consecutive f64 values are exactly   *)
(* that far apart: beat_length k stands for -0.5 - k * 2^-53.              *)
(***************************************************************************)
MaxBeat == 2        \* beat_length ranges over 0..MaxBeat steps
F64_EPSILON == 2    \* f64::EPSILON, in steps of f64::EPSILON / 2

TimingPointFields ==
    [beat_length : 0..MaxBeat, meter : {4}, sample_set : {"Normal", "Soft"},
     sample_index : {0}, volume : {100}, uninherited : BOOLEAN,
     effects : {0}]

TimingPoint(fields, time) ==
    [time |-> time, beat_length |-> fields.beat_length,
     meter |-> fields.meter, sample_set |-> fields.sample_set,
     sample_index |-> fields.sample_index, volume |-> fields.volume,
     uninherited |-> fields.uninherited, effects |-> fields.effects]

\* Timing point lists in file order: the i-th point is at time i.
TimingPointLists(n) ==
    {[i \in 1..Len(fs) |-> TimingPoint(fs[i], i)] :
        fs \in SeqsUpTo(TimingPointFields, n)}

\* TimingPoint::is_duplicate
is_duplicate(self, other) ==
    /\ Abs(self.beat_length - other.beat_length) < F64_EPSILON
    /\ self.meter = other.meter
    /\ self.sample_set = other.sample_set
    /\ self.sample_index = other.sample_index
    /\ self.volume = other.volume
    /\ self.effects = other.effects

\* The loop of remove_duplicates: rest is what is left of the input,
\* prev_timing_point the last point that was pushed.
RECURSIVE RemoveDuplicatesLoop(_, _, _)
RemoveDuplicatesLoop(rest, unduped_points, prev_timing_point) ==
    IF rest = <<>> THEN unduped_points
    ELSE LET timing_point == Head(rest)
         IN IF timing_point.uninherited
               \/ ~is_duplicate(timing_point, prev_timing_point)
            THEN RemoveDuplicatesLoop(Tail(rest),
                                      Append(unduped_points, timing_point),
                                      timing_point)
            ELSE RemoveDuplicatesLoop(Tail(rest), unduped_points,
                                      prev_timing_point)

remove_duplicates(points) ==
    IF points = <<>> THEN <<>>
    ELSE RemoveDuplicatesLoop(Tail(points), <<points[1]>>, points[1])

RemoveDuplicates ==
    /\ pc = "call"
    /\ unduped' = remove_duplicates(timing_points)
    /\ pc' = "returned"
    /\ UNCHANGED <<timing_points, hit_object_list, result_points>>
    /\ UNCHANGED notDedupVars

InitDedup ==
    /\ pc = "call"
    /\ timing_points \in TimingPointLists(MaxLen)
    /\ unduped = <<>>
    /\ hit_object_list = <<>> /\ result_points = <<>>
    /\ NotDedupIdle

SpecDedup == InitDedup /\ [][RemoveDuplicates]_vars

(***************************************************************************)
(* Claims about remove_duplicates.                                         *)
(***************************************************************************)
RECURSIVE SelectIndices(_, _, _)
SelectIndices(s, keep, i) ==
    IF i > Len(s) THEN <<>>
    ELSE (IF i \in keep THEN <<s[i]>> ELSE <<>>)
         \o SelectIndices(s, keep, i + 1)

\* The points the documented rule removes: inherited, and a duplicate of the
\* point directly before it in the input.
DuplicatesOfPredecessor(points) ==
    {i \in 2..Len(points) :
        /\ ~points[i].uninherited
        /\ is_duplicate(points[i], points[i - 1])}

\* C9: remove_duplicates removes exactly the inherited timing points whose
\* every field except time and uninherited equals that of the point directly
\* before it in the input, and keeps every other point in order.
C9_RemovesDuplicatesOfPredecessor ==
    pc = "returned"
        => unduped = SelectIndices(timing_points,
                         (1..Len(timing_points))
                             \ DuplicatesOfPredecessor(timing_points), 1)

\* What the code does instead: it removes the inherited points that are a
\* duplicate of the last point it kept.
KeptIndices(points) ==
    LET kept[i \in 1..Len(points)] ==
            IF i = 1 THEN {1}
            ELSE LET last == CHOOSE k \in kept[i - 1] :
                                 \A j \in kept[i - 1] : j <= k
                 IN IF points[i].uninherited
                       \/ ~is_duplicate(points[i], points[last])
                    THEN kept[i - 1] \cup {i}
                    ELSE kept[i - 1]
    IN IF points = <<>> THEN {} ELSE kept[Len(points)]

C9_RemovesDuplicatesOfLastKept ==
    pc = "returned"
        => unduped = SelectIndices(timing_points,
                                   KeptIndices(timing_points), 1)

(***************************************************************************)
(* remove_useless_speed_changes (algos/mod.rs).                            *)
(*                                                                         *)
(* A hit object is modelled as far as the timing point algorithms read it: *)
(* its time, its type and the end_time of a spinner or a hold.             *)
(***************************************************************************)
MapHitObject(time, object_type, length) ==
    [time |-> time, object_type |-> object_type,
     object_params |->
         IF object_type \in {"Spinner", "Hold"}
         THEN [kind |-> object_type, end_time |-> time + length]
         ELSE [kind |-> object_type]]

\* HitObject::is_hit_circle and HitObject::is_spinner
is_never(self) == FALSE

is_hit_circle(self) == self.object_type = "HitCircle"

is_spinner(self) == self.object_type = "Spinner"

\* "Something non-useless changed"
SomethingChanged(timing_point, prev_timing_point) ==
    \/ timing_point.uninherited
    \/ timing_point.meter # prev_timing_point.meter
    \/ timing_point.effects # prev_timing_point.effects
    \/ timing_point.sample_index # prev_timing_point.sample_index
    \/ timing_point.sample_set # prev_timing_point.sample_set
    \/ timing_point.volume # prev_timing_point.volume

\* The push of a previous timing point that was held back.
PushUnlessAdded(result, prev_timing_point, prev_timing_point_was_added) ==
    IF prev_timing_point_was_added THEN result
    ELSE Append(result, prev_timing_point)

\* The hit objects from the previous timing point up to this one.
HoSlice(objects, prev_timing_point, timing_point) ==
    between(objects, [start_bound |-> Included(prev_timing_point.time),
                      end_bound |-> Excluded(timing_point.time)])

AllCirclesOrSpinners(ho_slice) ==
    \A i \in 1..Len(ho_slice) :
        is_hit_circle(ho_slice[i]) \/ is_spinner(ho_slice[i])

\* The loop of remove_useless_speed_changes over timing_points[1..]; the
\* panic of between is the panic of the call.
RECURSIVE UselessLoop(_, _, _, _, _)
UselessLoop(rest, objects, result, prev_timing_point, prev_timing_point_was_added) ==
    IF rest = <<>>
    THEN Slice(PushUnlessAdded(result, prev_timing_point,
                               prev_timing_point_was_added))
    ELSE IF SomethingChanged(Head(rest), prev_timing_point)
    THEN UselessLoop(Tail(rest), objects,
                     Append(PushUnlessAdded(result, prev_timing_point,
                                            prev_timing_point_was_added),
                            Head(rest)),
                     Head(rest), TRUE)
    ELSE IF ~prev_timing_point_was_added
    THEN IF HoSlice(objects, prev_timing_point, Head(rest)) = Panic
         THEN Panic
         ELSE UselessLoop(
                  Tail(rest), objects,
                  IF AllCirclesOrSpinners(
                         HoSlice(objects, prev_timing_point,
                                 Head(rest)).items)
                  THEN result
                  ELSE Append(result, prev_timing_point),
                  Head(rest), FALSE)
    ELSE UselessLoop(Tail(rest), objects, result, Head(rest), FALSE)

remove_useless_speed_changes(points, objects) ==
    IF points = <<>> \/ objects = <<>> THEN Slice(<<>>)
    ELSE UselessLoop(Tail(points), objects, <<points[1]>>, points[1], TRUE)

RemoveUselessSpeedChanges ==
    /\ pc = "call"
    /\ result_points' =
           remove_useless_speed_changes(timing_points, hit_object_list)
    /\ pc' = "returned"
    /\ UNCHANGED <<timing_points, unduped, hit_object_list>>
    /\ UNCHANGED notDedupVars

\* The timing points given to it: an inherited base point, the base point
\* with one of the five compared fields changed, and an uninherited point.
\* The i-th point is at time 2 * i and the speeds alternate.
SpeedChangeBase ==
    [beat_length |-> 0, meter |-> 4, sample_set |-> "Normal",
     sample_index |-> 0, volume |-> 100, uninherited |-> FALSE,
     effects |-> 0]
SpeedChangeFields ==
    {SpeedChangeBase,
     [SpeedChangeBase EXCEPT !.meter = 3],
     [SpeedChangeBase EXCEPT !.effects = 1],
     [SpeedChangeBase EXCEPT !.sample_index = 1],
     [SpeedChangeBase EXCEPT !.sample_set = "Soft"],
     [SpeedChangeBase EXCEPT !.volume = 50],
     [SpeedChangeBase EXCEPT !.uninherited = TRUE]}
SpeedChangePoints(fs) ==
    [i \in 1..Len(fs) |->
        TimingPoint([fs[i] EXCEPT !.beat_length = i % (MaxBeat + 1)], 2 * i)]

MaxObjects == 1     \* longest list of hit objects
ObjectTimes == 2..(2 * MaxLen)
MapHitObjects(ts, ks) ==
    [i \in 1..Len(ts) |-> MapHitObject(ts[i], ks[i], 1)]

InitUseless ==
    /\ pc = "call"
    /\ \E n \in 0..MaxLen : \E fs \in [1..n -> SpeedChangeFields] :
           timing_points = SpeedChangePoints(fs)
    /\ \E m \in 0..MaxObjects :
           \E ts \in [1..m -> ObjectTimes], ks \in [1..m -> HitObjectType] :
               /\ \A i \in 1..(m - 1) : ts[i] <= ts[i + 1]
               /\ hit_object_list = MapHitObjects(ts, ks)
    /\ unduped = <<>> /\ result_points = <<>>
    /\ NotDedupIdle

SpecUseless == InitUseless /\ [][RemoveUselessSpeedChanges]_vars

(***************************************************************************)
(* Claims about remove_useless_speed_changes.                              *)
(***************************************************************************)
IsKept(i) ==
    /\ result_points.kind = "slice"
    /\ \E j \in 1..Len(result_points.items) :
           result_points.items[j] = timing_points[i]

\* C22: remove_useless_speed_changes keeps every uninherited timing point of
\* its input in its output, for every hit-object list, including an empty
\* one.
C22_UninheritedAreKept ==
    pc = "returned" =>
        \A i \in 1..Len(timing_points) :
            timing_points[i].uninherited => IsKept(i)

\* What the code does keep: with at least one hit object, every uninherited
\* timing point.
C22_UninheritedAreKeptWithObjects ==
    (pc = "returned" /\ hit_object_list # <<>>) =>
        \A i \in 1..Len(timing_points) :
            timing_points[i].uninherited => IsKept(i)

C22_EmptyMapLosesTiming ==
    /\ pc = "returned"
    /\ hit_object_list = <<>>
    /\ \E i \in 1..Len(timing_points) : timing_points[i].uninherited
    /\ result_points = Slice(<<>>)

SameHitsounding(a, b) ==
    /\ a.meter = b.meter
    /\ a.effects = b.effects
    /\ a.sample_set = b.sample_set
    /\ a.sample_index = b.sample_index
    /\ a.volume = b.volume

\* The rule of the claim for the timing point P at index i, with Q the
\* timing point after it.
IsUselessSpeedChange(i) ==
    /\ i > 1
    /\ ~timing_points[i].uninherited
    /\ SameHitsounding(timing_points[i], timing_points[i - 1])
    /\ i < Len(timing_points)
    /\ ~timing_points[i + 1].uninherited
    /\ SameHitsounding(timing_points[i + 1], timing_points[i])
    /\ \A j \in 1..Len(hit_object_list) :
          (/\ timing_points[i].time <= hit_object_list[j].time
           /\ hit_object_list[j].time < timing_points[i + 1].time)
              => hit_object_list[j].object_type \in {"HitCircle", "Spinner"}

\* C27: with a non-empty hit-object list and sorted inputs, a timing point P
\* other than the first is dropped exactly when P is inherited and has the
\* meter, effects, sample set, sample index and volume of the timing point
\* before it, the next timing point Q exists, is inherited and has those
\* five fields equal to P's, and every hit object with
\* P.time <= time < Q.time is a hit circle or a spinner; every other timing
\* point is kept, in input order.
C27_DropsExactlyUselessSpeedChanges ==
    (pc = "returned" /\ hit_object_list # <<>>) =>
        result_points =
            Slice(SelectIndices(timing_points,
                                {i \in 1..Len(timing_points) :
                                    ~IsUselessSpeedChange(i)}, 1))

\* The point at time 4 is dropped: it changes nothing but the speed, the
\* point after it neither, and the only hit object, a slider, is exactly at
\* the time of the point after it.
C27_Witness ==
    /\ pc = "returned"
    /\ Len(timing_points) = 3
    /\ IsUselessSpeedChange(2)
    /\ Len(hit_object_list) = 1
    /\ hit_object_list[1].object_type = "Slider"
    /\ hit_object_list[1].time = timing_points[3].time
    /\ result_points = Slice(<<timing_points[1], timing_points[3]>>)

\* A spinner between two such points does not save the first of them.
C27_SpinnerInRange ==
    /\ pc = "returned"
    /\ Len(timing_points) = 3
    /\ Len(hit_object_list) = 1
    /\ hit_object_list[1].object_type = "Spinner"
    /\ hit_object_list[1].time = timing_points[2].time + 1
    /\ result_points = Slice(<<timing_points[1], timing_points[3]>>)

(***************************************************************************)
(* insert_hitsound_timing_point (algos/mod.rs).  Vec::insert panics when   *)
(* the index is greater than the length.                                   *)
(***************************************************************************)
WithHitsound(timing_point, sample_set, sample_index, volume) ==
    [timing_point EXCEPT !.sample_set = sample_set,
                         !.sample_index = sample_index,
                         !.volume = volume]

\* Vec::insert, with the 0-based index of the source.
VecInsert(vec, index, element) ==
    IF index > Len(vec) THEN Panic
    ELSE Slice(SubSeq(vec, 1, index) \o <<element>>
               \o SubSeq(vec, index + 1, Len(vec)))

\* The arms of the match on the index the binary search returned.
InsertAtIndex(points, index, sample_set, sample_index, volume) ==
    IF index.ok
    THEN Slice([points EXCEPT ![index.index + 1] =
                   WithHitsound(@, sample_set, sample_index, volume)])
    ELSE IF index.index > 0
    THEN VecInsert(points, index.index + 1,
                   WithHitsound(points[index.index], sample_set,
                                sample_index, volume))
    ELSE Slice(points)

insert_hitsound_timing_point(points, t, sample_set, sample_index, volume) ==
    InsertAtIndex(points,
                  binary_search_by([i \in 1..Len(points) |->
                                       f64_total_cmp(points[i].time, t)]),
                  sample_set, sample_index, volume)

MaxInserted == 2    \* the calls stop when this many points were inserted
HitsoundTimes == 0..(2 * MaxLen + 1)
HitsoundBanks == {"Normal", "Drum"}
HitsoundVolumes == {60}
HitsoundIndices == {1}

\* One call; the list is the caller's, and the next call works on it.
InsertHitsoundTimingPoint ==
    /\ pc = "call"
    /\ Len(timing_points) < MaxLen + MaxInserted
    /\ \E t \in HitsoundTimes, sample_set \in HitsoundBanks,
          sample_index \in HitsoundIndices, volume \in HitsoundVolumes :
          LET inserted == insert_hitsound_timing_point(
                              timing_points, t, sample_set, sample_index,
                              volume)
          IN IF inserted = Panic
             THEN pc' = "panicked" /\ UNCHANGED timing_points
             ELSE pc' = "call" /\ timing_points' = inserted.items
    /\ UNCHANGED <<unduped, hit_object_list, result_points>>
    /\ UNCHANGED notDedupVars

InitInsert ==
    /\ pc = "call"
    /\ \E n \in 0..MaxLen :
           \E fs \in [1..n -> {SpeedChangeBase,
                               [SpeedChangeBase EXCEPT !.uninherited = TRUE]}] :
               timing_points = SpeedChangePoints(fs)
    /\ unduped = <<>> /\ hit_object_list = <<>> /\ result_points = <<>>
    /\ NotDedupIdle

SpecInsert == InitInsert /\ [][InsertHitsoundTimingPoint]_vars

(***************************************************************************)
(* Claims about insert_hitsound_timing_point.                              *)
(***************************************************************************)
\* C23: starting from a timing point list sorted ascending by time, after
\* any sequence of insert_hitsound_timing_point calls with any timestamps,
\* every call has completed without failing and the list is still sorted
\* ascending by time.
C23_InsertKeepsSorted ==
    /\ pc # "panicked"
    /\ IsSortedByTime(timing_points)

\* What the code does keep: the times in the list are times of the list the
\* calls started from, and a call that finds the timestamp in the list or
\* before its first point leaves the order alone.
C23_InsertCopiesTimes ==
    \A i \in 1..Len(timing_points) :
        \E k \in 1..MaxLen : timing_points[i].time = 2 * k

C23_InsertAfterLastPanics == pc = "panicked"

C23_InsertBetweenUnsorts ==
    /\ pc = "call"
    /\ ~IsSortedByTime(timing_points)

(***************************************************************************)
(* offset_map (algos/mod.rs), on the timing points and the hit objects of  *)
(* a BeatmapFile.                                                          *)
(***************************************************************************)
OffsetTimingPoint(timing_point, offset_millis) ==
    [timing_point EXCEPT !.time = @ + offset_millis]

\* Only `HitObjectParams::Spinner { end_time }` matches the if let.
OffsetHitObject(ho, offset_millis) ==
    IF ho.object_params.kind = "Spinner"
    THEN [ho EXCEPT !.time = @ + offset_millis,
                    !.object_params.end_time = @ + offset_millis]
    ELSE [ho EXCEPT !.time = @ + offset_millis]

offset_map(bm, offset_millis) ==
    [bm EXCEPT
        !.timing_points =
            [i \in 1..Len(@) |-> OffsetTimingPoint(@[i], offset_millis)],
        !.hit_objects =
            [i \in 1..Len(@) |-> OffsetHitObject(@[i], offset_millis)]]

OffsetMillis == {-3, 0, 5}

OffsetMap ==
    /\ pc = "call"
    /\ \E offset_millis \in OffsetMillis :
          LET bm == offset_map([timing_points |-> timing_points,
                                hit_objects |-> hit_object_list],
                               offset_millis)
          IN /\ timing_points' = bm.timing_points
             /\ hit_object_list' = bm.hit_objects
    /\ pc' = "returned"
    /\ UNCHANGED <<unduped, result_points>>
    /\ UNCHANGED notDedupVars

SpecOffset == InitUseless /\ [][OffsetMap]_vars

(***************************************************************************)
(* Claims about offset_map.                                                *)
(***************************************************************************)
HasEndTime(ho) == ho.object_params.kind \in {"Spinner", "Hold"}
Duration(ho) == ho.object_params.end_time - ho.time

\* C24: offset_map shifts the whole map rigidly: for every spinner and every
\* hold, the duration end_time - time is the same after the call as before
\* it, for every offset.
C24_OffsetKeepsDurations ==
    [][\A i \in 1..Len(hit_object_list) :
          HasEndTime(hit_object_list[i]) =>
              Duration(hit_object_list'[i]) = Duration(hit_object_list[i])]_vars

\* What the code does keep: the duration of every spinner, and every time
\* moved by the offset.
C24_OffsetKeepsSpinnerDurations ==
    [][\A i \in 1..Len(hit_object_list) :
          is_spinner(hit_object_list[i]) =>
              Duration(hit_object_list'[i]) = Duration(hit_object_list[i])]_vars

C24_HoldChangedLength ==
    /\ pc = "returned"
    /\ \E i \in 1..Len(hit_object_list) :
          /\ hit_object_list[i].object_params.kind = "Hold"
          /\ Duration(hit_object_list[i]) \in {4, -4}

(***************************************************************************)
(* Slider control points to bezier anchors (algos/bezier.rs).              *)
(*                                                                         *)
(* A SliderPoint has integer coordinates; a Point has f64 coordinates.     *)
(* The only division the conversions make is by 6.0 (Catmull), so a Point  *)
(* is modelled with integer coordinates counted in sixths.                 *)
(***************************************************************************)
MaxChain == 4       \* longest chain of control points
MaxCoord == 2       \* x ranges over 0..MaxCoord, y over 0..1
PointScale == 6     \* a Point coordinate is counted in 1/PointScale

SliderCurveType == {"Inherit", "Bezier", "Catmull", "Linear", "PerfectCurve"}

SliderPoint(curve_type, x, y) == [curve_type |-> curve_type, x |-> x, y |-> y]
Point(x, y) == [x |-> x, y |-> y]

\* SliderPoint::to_point
to_point(self) == Point(self.x * PointScale, self.y * PointScale)

PointAdd(a, b) == Point(a.x + b.x, a.y + b.y)
PointSub(a, b) == Point(a.x - b.x, a.y - b.y)
PointNeg(a) == Point(-a.x, -a.y)
PointMul(a, k) == Point(a.x * k, a.y * k)
PointDiv(a, k) == Point(a.x \div k, a.y \div k)

ToPoints(points) == [i \in 1..Len(points) |-> to_point(points[i])]

\* Vec::remove(len - 1) on a non-empty vector.
RemoveLast(v) == SubSeq(v, 1, Len(v) - 1)

BezierOk(points) == [kind |-> "ok", value |-> points]
BezierErr(err) == [kind |-> "err", err |-> err]
BezierPanic == [kind |-> "panic"]

\* convert_linear_to_bezier_anchors: the loop runs over all of points, the
\* first one included.
RECURSIVE PushTwice(_, _)
PushTwice(bezier, points) ==
    IF points = <<>> THEN bezier
    ELSE PushTwice(bezier \o <<to_point(Head(points)), to_point(Head(points))>>,
                   Tail(points))

convert_linear_to_bezier_anchors(points) ==
    IF points = <<>> THEN BezierOk(<<>>)
    ELSE BezierOk(RemoveLast(PushTwice(<<to_point(points[1])>>, points)))

\* convert_catmull_to_bezier_anchors: points is the chain without its first
\* point; i counts from 0 as in the source.
RECURSIVE CatmullLoop(_, _, _)
CatmullLoop(cubics, points, i) ==
    IF i >= Len(points) - 1 THEN cubics
    ELSE LET v1 == to_point(points[(IF i > 0 THEN i - 1 ELSE i) + 1])
             v2 == to_point(points[i + 1])
             v3 == IF i < Len(points) - 1
                   THEN to_point(points[i + 2])
                   ELSE PointSub(PointAdd(v2, v2), v1)
             v4 == IF i < Len(points) - 2
                   THEN to_point(points[i + 3])
                   ELSE PointSub(PointAdd(v3, v3), v2)
             c1 == PointDiv(PointAdd(PointAdd(PointNeg(v1), PointMul(v2, 6)),
                                     v3), 6)
             c2 == PointDiv(PointAdd(PointAdd(PointNeg(v4), PointMul(v3, 6)),
                                     v2), 6)
         IN CatmullLoop(cubics \o <<c1, c2, v3, v3>>, points, i + 1)

\* With a chain of one point, points.len() - 1 underflows: the debug build
\* panics on the subtraction, the release build on the first points[i].
convert_catmull_to_bezier_anchors(chain) ==
    IF chain = <<>> THEN BezierOk(<<>>)
    ELSE LET first_point == Head(chain)
             points == Tail(chain)
         IN IF points = <<>> THEN BezierPanic
            ELSE BezierOk(RemoveLast(
                     CatmullLoop(<<to_point(first_point)>>, points, 0)))

\* A test that finds no three points on one line.
CollinearNever(points) == FALSE

\* get_circle_arc_properties returns None when the three points are on one
\* line.  The coordinates are integers, so the cross product is exact and
\* is within f64::EPSILON of 0 only when it is 0.
Collinear(points) ==
    LET a == to_point(points[1])
        b == to_point(points[2])
        c == to_point(points[3])
    IN (b.y - a.y) * (c.x - a.x) - (b.x - a.x) * (c.y - a.y) = 0

\* The circle presets have 3 to 7 points.
CirclePresetSizes == 3..7

\* convert_circle_to_bezier_anchors: for three points on one line, the
\* points themselves.  Otherwise a preset arc, chosen by the angle the arc
\* spans and fitted by floating-point iteration, whose first and last points
\* are then overwritten with the chain's; the model keeps those two and the
\* number of points, and leaves the points in between opaque.
convert_circle_to_bezier_anchors(points) ==
    IF Collinear(points) THEN {BezierOk(ToPoints(points))}
    ELSE {BezierOk([i \in 1..n |->
                      IF i = 1 THEN to_point(points[1])
                      ELSE IF i = n THEN to_point(points[3])
                      ELSE [arc |-> i]]) : n \in CirclePresetSizes}

\* convert_to_bezier_anchors: the set of results it can return.
convert_to_bezier_anchors(points) ==
    IF points = <<>> THEN {BezierErr("NoControlPoints")}
    ELSE CASE points[1].curve_type = "Linear" ->
                {convert_linear_to_bezier_anchors(points)}
           [] points[1].curve_type = "PerfectCurve" ->
                IF Len(points) = 2
                THEN {convert_linear_to_bezier_anchors(points)}
                ELSE IF Len(points) = 3
                THEN convert_circle_to_bezier_anchors(points)
                ELSE {BezierErr("PerfectCurveWithMoreThan3Points")}
           [] points[1].curve_type = "Catmull" ->
                {convert_catmull_to_bezier_anchors(points)}
           [] OTHER -> {BezierOk(ToPoints(points))}

ConvertToBezierAnchors ==
    /\ pc = "call"
    /\ anchors' \in convert_to_bezier_anchors(control_points)
    /\ pc' = "returned"
    /\ UNCHANGED control_points
    /\ UNCHANGED notBezierVars

\* A segment as convert_slider_points_to_legacy cuts it: only the first
\* point's curve type is read.
Coords == {<<x, y>> : x \in 0..MaxCoord, y \in 0..1}
Chains(n) ==
    {[i \in 1..Len(cs) |->
        SliderPoint(IF i = 1 THEN t ELSE "Inherit", cs[i][1], cs[i][2])] :
        t \in SliderCurveType, cs \in SeqsUpTo(Coords, n)}

InitBezier ==
    /\ pc = "call"
    /\ control_points \in Chains(MaxChain)
    /\ anchors = <<>>
    /\ NotBezierIdle

SpecBezier == InitBezier /\ [][ConvertToBezierAnchors]_vars

(***************************************************************************)
(* Claims about convert_to_bezier_anchors.                                 *)
(***************************************************************************)
\* p0, then every interior point twice, then pn.
RECURSIVE InteriorTwice(_, _)
InteriorTwice(points, i) ==
    IF i >= Len(points) THEN <<>>
    ELSE <<to_point(points[i]), to_point(points[i])>>
         \o InteriorTwice(points, i + 1)

LinearExpansion(points) ==
    <<to_point(points[1])>> \o InteriorTwice(points, 2)
        \o <<to_point(points[Len(points)])>>

\* C10: a Linear segment p0, p1, ..., pn converts to p0, then every interior
\* point twice, then pn once; a 2-point Linear segment converts to exactly
\* its two points.
C10_LinearExpansion ==
    (/\ pc = "returned"
     /\ Len(control_points) >= 2
     /\ control_points[1].curve_type = "Linear")
        => anchors = BezierOk(LinearExpansion(control_points))

\* What the code returns instead: p0 three times, then the expansion.
C10_LinearExpansionAfterTripledFirst ==
    (/\ pc = "returned"
     /\ Len(control_points) >= 2
     /\ control_points[1].curve_type = "Linear")
        => anchors = BezierOk(<<to_point(control_points[1]),
                                to_point(control_points[1])>>
                              \o LinearExpansion(control_points))

\* C12: converting a chain led by a PerfectCurve point fails with
\* PerfectCurveWithMoreThan3Points exactly when the chain has more than 3
\* points; a 2-point chain is converted as Linear and a 3-point chain as a
\* circular arc.
C12_PerfectCurveErrorIffMoreThan3 ==
    (/\ pc = "returned"
     /\ control_points # <<>>
     /\ control_points[1].curve_type = "PerfectCurve")
        => /\ anchors = BezierErr("PerfectCurveWithMoreThan3Points")
                <=> Len(control_points) > 3
           /\ Len(control_points) = 2
                => anchors = convert_linear_to_bezier_anchors(control_points)
           /\ Len(control_points) = 3
                => anchors \in convert_circle_to_bezier_anchors(control_points)

\* What the code does: the error is returned for every length other than
\* 2 and 3, a chain of one point included.
C12_PerfectCurveErrorUnlessTwoOrThree ==
    (/\ pc = "returned"
     /\ control_points # <<>>
     /\ control_points[1].curve_type = "PerfectCurve")
        => /\ anchors = BezierErr("PerfectCurveWithMoreThan3Points")
                <=> Len(control_points) \notin {2, 3}
           /\ Len(control_points) = 2
                => anchors = convert_linear_to_bezier_anchors(control_points)
           /\ Len(control_points) = 3
                => anchors \in convert_circle_to_bezier_anchors(control_points)

C12_OnePointPerfectCurve ==
    /\ pc = "returned"
    /\ Len(control_points) = 1
    /\ control_points[1].curve_type = "PerfectCurve"
    /\ anchors = BezierErr("PerfectCurveWithMoreThan3Points")

\* Three slider points on one line: the second and the third lie in the same
\* or opposite direction from the first.
OnOneLine(a, b, c) == (b.x - a.x) * (c.y - a.y) = (c.x - a.x) * (b.y - a.y)

AsI32(sixths) ==
    IF sixths >= 0 THEN sixths \div PointScale
    ELSE -((-sixths) \div PointScale)

\* The closure of curve_points.extend: a Point becomes an Inherit point.
\* The points inside a fitted arc stay opaque.
InheritPointOf(p) ==
    IF "arc" \in DOMAIN p THEN [curve_type |-> "Inherit", arc |-> p.arc]
    ELSE SliderPoint("Inherit", AsI32(p.x), AsI32(p.y))

InheritPointsOf(points) == [i \in 1..Len(points) |-> InheritPointOf(points[i])]

SetCurveType(point, curve_type) == [point EXCEPT !.curve_type = curve_type]

\* A slice that leaves out its last index: &curve_points[from..to].
SegmentBefore(from, to) == [from |-> from, to |-> to - 1]

\* A segment is the slice &curve_points[from..=to], indices counted from 0.
Segment(from, to) == [from |-> from, to |-> to]

SegmentPoints(curve_points, segment) ==
    SubSeq(curve_points, segment.from + 1, segment.to + 1)

\* The for loop that cuts the segments, and the push after it.
RECURSIVE CutSegments(_, _, _, _)
CutSegments(curve_points, cut, segment_start, i) ==
    IF i >= Len(curve_points)
    THEN IF segment_start # Len(curve_points) - 1
         THEN Append(cut, Segment(segment_start, Len(curve_points) - 1))
         ELSE cut
    ELSE IF i = segment_start
    THEN CutSegments(curve_points, cut, segment_start, i + 1)
    ELSE IF curve_points[i + 1].curve_type # "Inherit"
    THEN CutSegments(curve_points, Append(cut, Segment(segment_start, i)),
                     i, i + 1)
    ELSE CutSegments(curve_points, cut, segment_start, i + 1)

\* The for loop over the segments: the results it can end with.
RECURSIVE ConvertSegments(_, _, _)
ConvertSegments(curve_points, cut, converted) ==
    IF cut = <<>> THEN {BezierOk(converted)}
    ELSE UNION {
        IF points.kind = "ok"
        THEN ConvertSegments(curve_points, Tail(cut),
                             converted \o InheritPointsOf(points.value))
        ELSE {points} :
        points \in convert_to_bezier_anchors(
                       SegmentPoints(curve_points, Head(cut)))}

\* A conversion that leaves the first point as the loop made it.
FirstAsConverted(result) == result

\* if let Some(first_point) = curve_points.first_mut()
FirstAsBezier(result) ==
    IF result.kind = "ok" /\ result.value # <<>>
    THEN BezierOk([result.value EXCEPT ![1] = SetCurveType(@, "Bezier")])
    ELSE result

\* The 3-point arm.
ThreePointsToLegacy(curve_points) ==
    IF curve_points[2].curve_type # "Inherit"
    THEN <<SetCurveType(curve_points[1], "Linear"),
           SetCurveType(curve_points[2], "Inherit"),
           SetCurveType(curve_points[3], "Inherit")>>
    ELSE <<curve_points[1], curve_points[2],
           SetCurveType(curve_points[3], "Inherit")>>

\* The segments the call cuts: none in the arms for up to 3 points.
SegmentsOf(curve_points) ==
    IF Len(curve_points) <= 3 THEN <<>>
    ELSE CutSegments(curve_points, <<>>, 0, 0)

\* convert_slider_points_to_legacy: the set of results it can return.
convert_slider_points_to_legacy(curve_points) ==
    IF Len(curve_points) <= 2 THEN {BezierOk(curve_points)}
    ELSE IF Len(curve_points) = 3
    THEN {BezierOk(ThreePointsToLegacy(curve_points))}
    ELSE {FirstAsBezier(result) :
            result \in ConvertSegments(curve_points, SegmentsOf(curve_points),
                                       <<>>)}

ConvertSliderPointsToLegacy ==
    /\ pc = "call"
    /\ segments' = SegmentsOf(slider_points)
    /\ legacy_points' \in convert_slider_points_to_legacy(slider_points)
    /\ pc' = "returned"
    /\ UNCHANGED slider_points
    /\ UNCHANGED notLegacyVars

\* Chains of up to MaxSliderPoints points, every point with any curve type.
\* A point is either at (2, 0) or, by its position, at (0, 0) or (1, 1), so
\* that three points in a row can be on one line or not.
MaxSliderPoints == 4
LegacyCoord(i, far) ==
    IF far THEN <<2, 0>> ELSE IF i % 2 = 1 THEN <<0, 0>> ELSE <<1, 1>>
SliderPointsOf(ts, fs) ==
    [i \in 1..Len(ts) |-> SliderPoint(ts[i], LegacyCoord(i, fs[i])[1],
                                      LegacyCoord(i, fs[i])[2])]

InitLegacy ==
    /\ pc = "call"
    /\ \E n \in 0..MaxSliderPoints :
         \E ts \in [1..n -> SliderCurveType], fs \in [1..n -> BOOLEAN] :
            slider_points = SliderPointsOf(ts, fs)
    /\ segments = <<>>
    /\ legacy_points = <<>>
    /\ NotLegacyIdle

SpecLegacy == InitLegacy /\ [][ConvertSliderPointsToLegacy]_vars

(***************************************************************************)
(* Claims about convert_slider_points_to_legacy.                           *)
(***************************************************************************)
\* A chain in the legacy form: the first point Bezier, every other Inherit.
IsLegacy(curve_points) ==
    /\ curve_points # <<>>
    /\ curve_points[1].curve_type = "Bezier"
    /\ \A i \in 2..Len(curve_points) : curve_points[i].curve_type = "Inherit"

\* C11: running legacy conversion on a chain that is already legacy (first
\* point tagged Bezier, every other point tagged Inherit), of any length,
\* returns the same point sequence with the same coordinates in the same
\* order.
C11_LegacyIsFixedPoint ==
    (pc = "returned" /\ IsLegacy(slider_points))
        => legacy_points = BezierOk(slider_points)

C11_Witness ==
    /\ pc = "returned"
    /\ IsLegacy(slider_points)
    /\ Len(slider_points) = 4
    /\ slider_points[2].x # slider_points[3].x
    /\ legacy_points = BezierOk(slider_points)

\* The segments that hold the point at index i (counted from 0).
SegmentsHolding(i) ==
    {k \in 1..Len(segments) : segments[k].from <= i /\ i <= segments[k].to}

IsTagged(point) == point.curve_type # "Inherit"

\* No point strictly inside a segment is tagged, and every segment after the
\* first starts with a tagged point.
SegmentsAreMaximal ==
    /\ \A k \in 1..Len(segments) :
         \A i \in (segments[k].from + 1)..(segments[k].to - 1) :
            ~IsTagged(slider_points[i + 1])
    /\ \A k \in 2..Len(segments) :
         IsTagged(slider_points[segments[k].from + 1])

\* C20, what holds: for a chain of more than 3 points, legacy conversion
\* cuts the chain into contiguous segments of at least two points at each
\* point after the first whose own tag is not Inherit.  Such a point ends
\* one segment and starts the next, so it belongs to both; every other
\* point belongs to exactly one segment, no point strictly inside a segment
\* is tagged, and each segment after the first starts with a tagged point.
C20_SegmentsShareBoundaries ==
    (pc = "returned" /\ Len(slider_points) > 3)
        => /\ segments # <<>>
           /\ segments[1].from = 0
           /\ segments[Len(segments)].to = Len(slider_points) - 1
           /\ \A k \in 1..Len(segments) : segments[k].from < segments[k].to
           /\ \A k \in 2..Len(segments) :
                segments[k].from = segments[k - 1].to
           /\ SegmentsAreMaximal
           /\ \A i \in 0..(Len(slider_points) - 1) :
                Cardinality(SegmentsHolding(i)) =
                    IF /\ 0 < i /\ i < Len(slider_points) - 1
                       /\ IsTagged(slider_points[i + 1])
                    THEN 2 ELSE 1

\* C20: legacy conversion partitions the chain into maximal contiguous
\* segments, splitting immediately before each point whose own tag is not
\* Inherit: every point of the chain belongs to exactly one segment, and
\* each segment after the first starts with an explicitly tagged point.
C20_SegmentsPartition ==
    (pc = "returned" /\ Len(slider_points) > 3)
        => /\ SegmentsAreMaximal
           /\ \A i \in 0..(Len(slider_points) - 1) :
                Cardinality(SegmentsHolding(i)) = 1

C20_Witness ==
    /\ pc = "returned"
    /\ Len(slider_points) > 3
    /\ Len(segments) = 2
    /\ segments[1] = Segment(0, 2)
    /\ segments[2] = Segment(2, 3)
    /\ SegmentsHolding(2) = {1, 2}

(***************************************************************************)
(* Text (file/beatmap/parsing.rs, serializing.rs).                         *)
(*                                                                         *)
(* A str is modelled as a sequence of lexemes.  Every character the code   *)
(* looks at on its own (a digit, a sign, a decimal point, a space and the  *)
(* separators , : | [ ] /) is one lexeme; a run of letters that the code   *)
(* only ever compares as a whole (a key, a keyword, a file name) is one    *)
(* lexeme.  split, split_once, trim, starts_with and the number parsers    *)
(* and formatters then work lexeme by lexeme as the std functions work     *)
(* character by character.                                                 *)
(***************************************************************************)
Digits == <<"0", "1", "2", "3", "4", "5", "6", "7", "8", "9">>
IsDigit(c) == \E d \in 1..10 : Digits[d] = c
DigitValue(c) == (CHOOSE d \in 1..10 : Digits[d] = c) - 1

\* The position of the first sep in s, 0 when there is none.
RECURSIVE Find(_, _, _)
Find(s, sep, i) ==
    IF i > Len(s) THEN 0
    ELSE IF s[i] = sep THEN i
    ELSE Find(s, sep, i + 1)

\* str::split(sep): n separators give n + 1 pieces, empty ones included.
RECURSIVE Split(_, _)
Split(s, sep) ==
    LET i == Find(s, sep, 1)
    IN IF i = 0 THEN <<s>>
       ELSE <<SubSeq(s, 1, i - 1)>> \o Split(SubSeq(s, i + 1, Len(s)), sep)

\* str::split_once(sep): None, or the two sides of the first sep.
split_once(s, sep) ==
    LET i == Find(s, sep, 1)
    IN IF i = 0 THEN None
       ELSE Some(<<SubSeq(s, 1, i - 1), SubSeq(s, i + 1, Len(s))>>)

\* str::trim
RECURSIVE TrimStart(_)
TrimStart(s) ==
    IF s # <<>> /\ Head(s) = " " THEN TrimStart(Tail(s)) ELSE s
RECURSIVE TrimEnd(_)
TrimEnd(s) ==
    IF s # <<>> /\ s[Len(s)] = " " THEN TrimEnd(SubSeq(s, 1, Len(s) - 1))
    ELSE s
Trim(s) == TrimEnd(TrimStart(s))

\* [String]::join(sep)
RECURSIVE Join(_, _)
Join(pieces, sep) ==
    IF pieces = <<>> THEN <<>>
    ELSE IF Len(pieces) = 1 THEN pieces[1]
    ELSE pieces[1] \o <<sep>> \o Join(Tail(pieces), sep)

ParseOk(value) == [ok |-> TRUE, value |-> value]
ParseErr(err) == [ok |-> FALSE, err |-> err]

\* Display for the integer types.
RECURSIVE FormatNat(_)
FormatNat(n) ==
    IF n < 10 THEN <<Digits[n + 1]>>
    ELSE FormatNat(n \div 10) \o <<Digits[(n % 10) + 1]>>
FormatInt(n) == IF n < 0 THEN <<"-">> \o FormatNat(-n) ELSE FormatNat(n)

\* The value of a run of digits.
RECURSIVE DigitsValue(_, _)
DigitsValue(s, acc) ==
    IF s = <<>> THEN acc
    ELSE DigitsValue(Tail(s), acc * 10 + DigitValue(Head(s)))
AllDigits(s) == \A i \in 1..Len(s) : IsDigit(s[i])

I32_MIN == -2147483647 - 1
I32_MAX == 2147483647
U8_MAX == 255

\* FromStr for the signed integer types: an optional + or -, then one or
\* more digits, and the value must fit.
\* The sign of a number: its first character when it is one of signs.
HasSign(s, signs) == s # <<>> /\ Head(s) \in signs
Unsigned(s, signs) == IF HasSign(s, signs) THEN Tail(s) ELSE s

\* The check that the value fits the type.
CheckedValue(value, min, max) ==
    IF value < min \/ value > max THEN ParseErr("ParseIntError")
    ELSE ParseOk(value)

\* One or more digits after the sign, and their value with the sign.
ParseDigits(digits, negative, min, max) ==
    IF digits = <<>> \/ ~AllDigits(digits) THEN ParseErr("ParseIntError")
    ELSE CheckedValue(IF negative THEN -DigitsValue(digits, 0)
                      ELSE DigitsValue(digits, 0), min, max)

ParseSigned(s, min, max) ==
    ParseDigits(Unsigned(s, {"+", "-"}), HasSign(s, {"-"}), min, max)

\* FromStr for the unsigned integer types: an optional +, then one or more
\* digits, and the value must fit.
ParseUnsigned(s, max) ==
    ParseDigits(Unsigned(s, {"+"}), FALSE, 0, max)

ParseI32(s) == ParseSigned(s, I32_MIN, I32_MAX)
ParseU32(s) == ParseUnsigned(s, I32_MAX)
ParseU8(s) == ParseUnsigned(s, U8_MAX)

(***************************************************************************)
(* Slider curve points: serialize_curve_points and parse_curve_points.     *)
(***************************************************************************)
CurveLetter(curve_type) ==
    CASE curve_type = "Bezier" -> "B"
      [] curve_type = "Catmull" -> "C"
      [] curve_type = "Linear" -> "L"
      [] curve_type = "PerfectCurve" -> "P"

\* A writer that never writes a letter.
CurvePrefixNone(curve_type) == <<>>

\* The prefix and preprefix of serialize_curve_points.
CurvePrefix(curve_type) ==
    IF curve_type = "Inherit" THEN <<>>
    ELSE <<CurveLetter(curve_type), "|">>

RECURSIVE SerializePoints(_, _)
SerializePoints(curve_points, started) ==
    IF curve_points = <<>> THEN <<>>
    ELSE LET curve_point == Head(curve_points)
         IN (IF started THEN <<"|">> ELSE <<>>)
            \o CurvePrefix(curve_point.curve_type)
            \o FormatInt(curve_point.x) \o <<":">> \o FormatInt(curve_point.y)
            \o SerializePoints(Tail(curve_points), TRUE)

serialize_curve_points(first_curve_type, curve_points) ==
    CurvePrefix(first_curve_type) \o SerializePoints(curve_points, FALSE)

\* The curve type letters parse_curve_points knows; None for any other token.
CurveTypeOfToken(token) ==
    IF token = <<"B">> THEN Some("Bezier")
    ELSE IF token = <<"C">> THEN Some("Catmull")
    ELSE IF token = <<"L">> THEN Some("Linear")
    ELSE IF token = <<"P">> THEN Some("PerfectCurve")
    ELSE None

\* parse_curve_points forgets a letter once a point has taken it.
CurveTypeAfterPointKept(curve_type) == curve_type
CurveTypeAfterPoint(curve_type) == "Inherit"

\* The loop of parse_curve_points over the tokens after the first.
RECURSIVE ParsePoints(_, _, _)
ParsePoints(curve_tokens, curve_points, curve_type) ==
    IF curve_tokens = <<>> THEN ParseOk(curve_points)
    ELSE LET curve_token == Head(curve_tokens)
             letter == CurveTypeOfToken(curve_token)
             xy == split_once(curve_token, ":")
         IN IF letter # None
            THEN ParsePoints(Tail(curve_tokens), curve_points, letter[1])
            ELSE IF xy = None THEN ParseErr("InvalidSliderPoint")
            ELSE LET x == ParseI32(xy[1][1])
                     y == ParseI32(xy[1][2])
                 IN IF ~x.ok \/ ~y.ok THEN ParseErr("InvalidSliderPoint")
                    ELSE ParsePoints(Tail(curve_tokens),
                             Append(curve_points,
                                    SliderPoint(curve_type, x.value, y.value)),
                             CurveTypeAfterPoint(curve_type))

parse_curve_points(line) ==
    LET curve_tokens == Split(line, "|")
        first_curve_type == CurveTypeOfToken(Head(curve_tokens))
    IN IF first_curve_type = None THEN ParseErr("UnknownCurveType")
       ELSE LET points == ParsePoints(Tail(curve_tokens), <<>>, "Inherit")
            IN IF ~points.ok THEN points
               ELSE ParseOk([first_curve_type |-> first_curve_type[1],
                             curve_points |-> points.value])

MaxCurvePoints == 2     \* longest chain of curve points

CurveCoords == {<<0, 0>>, <<-3, 12>>, <<305, -1>>}
CurvePoints ==
    {SliderPoint(t, c[1], c[2]) : t \in SliderCurveType, c \in CurveCoords}
Curves ==
    [first_curve_type : SliderCurveType,
     curve_points : SeqsUpTo(CurvePoints, MaxCurvePoints)]

SerializeCurvePoints ==
    /\ pc = "serialize"
    /\ curve_text' = serialize_curve_points(curve.first_curve_type,
                                            curve.curve_points)
    /\ pc' = "parse"
    /\ UNCHANGED <<curve, curve_parsed>>
    /\ UNCHANGED notCurveVars

ParseCurvePoints ==
    /\ pc = "parse"
    /\ curve_parsed' = parse_curve_points(curve_text)
    /\ pc' = "parsed"
    /\ UNCHANGED <<curve, curve_text>>
    /\ UNCHANGED notCurveVars

CurveNext == SerializeCurvePoints \/ ParseCurvePoints

InitCurve ==
    /\ pc = "serialize"
    /\ curve \in Curves
    /\ curve_text = <<>> /\ curve_parsed = <<>>
    /\ NotCurveIdle

SpecCurve == InitCurve /\ [][CurveNext]_vars

(***************************************************************************)
(* Claims about the curve point text.                                      *)
(***************************************************************************)
\* C2: for every first curve type among Bezier, Catmull, Linear and
\* PerfectCurve and every chain of one or more slider points, each tagged
\* Inherit or one of the four types, parse_curve_points applied to the text
\* serialize_curve_points wrote returns the same first curve type and the
\* same points with the same tags.
C2_CurvePointsRoundTrip ==
    (/\ pc = "parsed"
     /\ curve.first_curve_type # "Inherit"
     /\ Len(curve.curve_points) >= 1)
        => curve_parsed = ParseOk(curve)

C2_Witness ==
    /\ pc = "parsed"
    /\ curve.first_curve_type = "Linear"
    /\ Len(curve.curve_points) = 2
    /\ curve.curve_points[1].curve_type = "PerfectCurve"
    /\ curve.curve_points[2].curve_type = "Inherit"
    /\ curve.curve_points[1].x = -3 /\ curve.curve_points[2].x = 305
    /\ curve_text = <<"L", "|", "P", "|", "-", "3", ":", "1", "2", "|",
                      "3", "0", "5", ":", "-", "1">>
    /\ curve_parsed = ParseOk(curve)

(***************************************************************************)
(* Floats in text.  An f64 or f32 read from a short decimal and written    *)
(* back by Display is that decimal again, so a float is modelled as the    *)
(* decimal it stands for: a sign, and mantissa / 10^exponent with no       *)
(* trailing zero in the fraction.  Exponent notation, inf and NaN are not  *)
(* in the texts of the model.                                              *)
(***************************************************************************)
Float(negative, mantissa, exponent) ==
    [negative |-> negative, mantissa |-> mantissa, exponent |-> exponent]
FloatOfInt(n) == Float(n < 0, Abs(n), 0)

RECURSIVE StripTrailingZeros(_)
StripTrailingZeros(s) ==
    IF s # <<>> /\ s[Len(s)] = "0"
    THEN StripTrailingZeros(SubSeq(s, 1, Len(s) - 1))
    ELSE s

\* FromStr for f64 and f32: an optional sign, digits, an optional point and
\* more digits; at least one digit in all.
FloatOfDigits(negative, integer, kept) ==
    ParseOk(Float(negative, DigitsValue(integer \o kept, 0), Len(kept)))

ParseFloatParts(negative, integer, fraction) ==
    IF ~AllDigits(integer) \/ ~AllDigits(fraction)
       \/ (integer = <<>> /\ fraction = <<>>)
    THEN ParseErr("ParseFloatError")
    ELSE FloatOfDigits(negative, integer, StripTrailingZeros(fraction))

ParseFloatAt(negative, number, point) ==
    ParseFloatParts(negative,
                    IF point = 0 THEN number ELSE SubSeq(number, 1, point - 1),
                    IF point = 0 THEN <<>>
                    ELSE SubSeq(number, point + 1, Len(number)))

ParseFloatNumber(negative, number) ==
    ParseFloatAt(negative, number, Find(number, ".", 1))

ParseFloat(s) == ParseFloatNumber(HasSign(s, {"-"}), Unsigned(s, {"+", "-"}))

\* n written with exactly width digits.
RECURSIVE FormatPadded(_, _)
FormatPadded(n, width) ==
    IF width = 0 THEN <<>>
    ELSE FormatPadded(n \div 10, width - 1) \o <<Digits[(n % 10) + 1]>>

\* Display for f64 and f32.
FormatFloat(f) ==
    (IF f.negative THEN <<"-">> ELSE <<>>)
    \o FormatNat(f.mantissa \div (10 ^ f.exponent))
    \o (IF f.exponent = 0 THEN <<>>
        ELSE <<".">> \o FormatPadded(f.mantissa % (10 ^ f.exponent),
                                     f.exponent))

(***************************************************************************)
(* Lines of a section.                                                     *)
(***************************************************************************)
\* line.starts_with('[') && line.ends_with(']')
IsSectionHeader(line) ==
    line # <<>> /\ Head(line) = "[" /\ line[Len(line)] = "]"

\* parse_field_value_pair
parse_field_value_pair(line) ==
    LET pair == split_once(line, ":")
    IN IF pair = None THEN ParseErr("InvalidKeyValuePair")
       ELSE ParseOk([field |-> Trim(pair[1][1]), value |-> Trim(pair[1][2])])

\* writeln!(writer, "Key: {}\r", value)
KeyValueLine(key, value) == <<key, ":", " ">> \o value

\* value.parse::<u8>()? != 0
ParseBoolOf(n) == IF n.ok THEN ParseOk(n.value # 0) ELSE n
ParseBool(value) == ParseBoolOf(ParseU8(value))

\* writeln!(writer, "[Name]\r")
SectionHeader(name) == <<"[", name, "]">>

\* u8::from(bool), written with Display
FormatBool(b) == IF b THEN <<"1">> ELSE <<"0">>

\* FromStr for SampleBank: exactly "0", "1", "2" or "3".
ParseSampleBank(value) ==
    IF value = <<"0">> THEN ParseOk("Auto")
    ELSE IF value = <<"1">> THEN ParseOk("Normal")
    ELSE IF value = <<"2">> THEN ParseOk("Soft")
    ELSE IF value = <<"3">> THEN ParseOk("Drum")
    ELSE ParseErr("InvalidSampleBank")

\* sample_bank as u8, written with Display
FormatSampleBank(bank) ==
    CASE bank = "Auto" -> <<"0">>
      [] bank = "Normal" -> <<"1">>
      [] bank = "Soft" -> <<"2">>
      [] bank = "Drum" -> <<"3">>

HitSampleSet(normal_set, addition_set) ==
    [normal_set |-> normal_set, addition_set |-> addition_set]

\* FromStr for HitSampleSet
HitSampleSetOf(normal_set, addition_set) ==
    IF ~normal_set.ok \/ ~addition_set.ok
    THEN ParseErr("InvalidHitSampleSet")
    ELSE ParseOk(HitSampleSet(normal_set.value, addition_set.value))

HitSampleSetOfPair(pair) ==
    IF pair = None THEN ParseErr("InvalidHitSampleSet")
    ELSE HitSampleSetOf(ParseSampleBank(pair[1][1]),
                        ParseSampleBank(pair[1][2]))

ParseHitSampleSet(value) == HitSampleSetOfPair(split_once(value, ":"))

\* HitSampleSet::to_osu_string
HitSampleSetToOsuString(set) ==
    FormatSampleBank(set.normal_set) \o <<":">>
    \o FormatSampleBank(set.addition_set)

\* parse_list_of_with_sep: empty pieces are skipped.
\* T::from_str for the T of the list.
ParseListItem(kind, piece) ==
    CASE kind = "f32" -> ParseFloat(piece)
      [] kind = "u8" -> ParseU8(piece)
      [] kind = "HitSound" -> ParseU8(piece)
      [] kind = "HitSampleSet" -> ParseHitSampleSet(piece)

RECURSIVE ParseListLoop(_, _, _)
\* tobjs.push(tobj) and the rest of the loop, or the error of the item.
ParseListPush(pieces, kind, tobjs, tobj) ==
    IF ~tobj.ok THEN ParseErr("InvalidList")
    ELSE ParseListLoop(pieces, kind, Append(tobjs, tobj.value))

ParseListLoop(pieces, kind, tobjs) ==
    IF pieces = <<>> THEN ParseOk(tobjs)
    ELSE IF Head(pieces) = <<>> THEN ParseListLoop(Tail(pieces), kind, tobjs)
    ELSE ParseListPush(Tail(pieces), kind, tobjs,
                       ParseListItem(kind, Head(pieces)))

parse_list_of_with_sep(line, sep, kind) ==
    ParseListLoop(Split(line, sep), kind, <<>>)
parse_list_of(line, kind) == parse_list_of_with_sep(line, ",", kind)

(***************************************************************************)
(* [General]                                                               *)
(***************************************************************************)
\* GeneralSection::default()
GeneralDefault ==
    [audio_filename |-> <<>>, audio_lead_in |-> 0, audio_hash |-> None,
     preview_time |-> Float(TRUE, 1, 0), countdown |-> 1,
     sample_set |-> <<"Normal">>, stack_leniency |-> Float(FALSE, 7, 1),
     mode |-> 0, letterbox_in_breaks |-> FALSE, story_fire_in_front |-> TRUE,
     use_skin_sprites |-> FALSE, always_show_playfield |-> FALSE,
     overlay_position |-> "NoChange", skin_preference |-> None,
     epilepsy_warning |-> FALSE, countdown_offset |-> 0,
     special_style |-> FALSE, widescreen_storyboard |-> FALSE,
     samples_match_playback_rate |-> FALSE]

\* FromStr for OverlayPosition
ParseOverlayPosition(value) ==
    IF value = <<"NoChange">> THEN ParseOk("NoChange")
    ELSE IF value = <<"Below">> THEN ParseOk("Below")
    ELSE IF value = <<"Above">> THEN ParseOk("Above")
    ELSE ParseErr("InvalidOverlayPosition")

\* One parsed value stored in one field, or the field's parse error.
SetField(section, name, parsed) ==
    IF parsed.ok THEN ParseOk([section EXCEPT ![name] = parsed.value])
    ELSE ParseErr("FieldValueParse")

\* path.replace('\\', "/")
to_standardized_path(path) ==
    [i \in 1..Len(path) |-> IF path[i] = "\\" THEN "/" ELSE path[i]]

\* The match of parse_general_section on the field name.
GeneralField(section, field, value) ==
    CASE field = <<"AudioFilename">> ->
            SetField(section, "audio_filename",
                     ParseOk(to_standardized_path(value)))
      [] field = <<"AudioLeadIn">> ->
            SetField(section, "audio_lead_in", ParseI32(value))
      [] field = <<"AudioHash">> ->
            SetField(section, "audio_hash", ParseOk(Some(value)))
      [] field = <<"PreviewTime">> ->
            SetField(section, "preview_time", ParseFloat(value))
      [] field = <<"Countdown">> ->
            SetField(section, "countdown", ParseI32(value))
      [] field = <<"SampleSet">> ->
            SetField(section, "sample_set", ParseOk(value))
      [] field = <<"StackLeniency">> ->
            SetField(section, "stack_leniency", ParseFloat(value))
      [] field = <<"Mode">> ->
            SetField(section, "mode", ParseU8(value))
      [] field = <<"LetterboxInBreaks">> ->
            SetField(section, "letterbox_in_breaks", ParseBool(value))
      [] field = <<"StoryFireInFront">> ->
            SetField(section, "story_fire_in_front", ParseBool(value))
      [] field = <<"UseSkinSprites">> ->
            SetField(section, "use_skin_sprites", ParseBool(value))
      [] field = <<"AlwaysShowPlayfield">> ->
            SetField(section, "always_show_playfield", ParseBool(value))
      [] field = <<"OverlayPosition">> ->
            SetField(section, "overlay_position", ParseOverlayPosition(value))
      [] field = <<"SkinPreference">> ->
            SetField(section, "skin_preference", ParseOk(Some(value)))
      [] field = <<"EpilepsyWarning">> ->
            SetField(section, "epilepsy_warning", ParseBool(value))
      [] field = <<"CountdownOffset">> ->
            SetField(section, "countdown_offset", ParseI32(value))
      [] field = <<"SpecialStyle">> ->
            SetField(section, "special_style", ParseBool(value))
      [] field = <<"WidescreenStoryboard">> ->
            SetField(section, "widescreen_storyboard", ParseBool(value))
      [] field = <<"SamplesMatchPlaybackRate">> ->
            SetField(section, "samples_match_playback_rate", ParseBool(value))
      [] OTHER -> ParseOk(section)

\* serialize_general_section; the last line is the blank line.
serialize_general_section(section) ==
    <<SectionHeader("General"),
      KeyValueLine("AudioFilename", section.audio_filename),
      KeyValueLine("AudioLeadIn", FormatInt(section.audio_lead_in)),
      KeyValueLine("PreviewTime", FormatFloat(section.preview_time)),
      KeyValueLine("Countdown", FormatInt(section.countdown)),
      KeyValueLine("SampleSet", section.sample_set),
      KeyValueLine("StackLeniency", FormatFloat(section.stack_leniency)),
      KeyValueLine("Mode", FormatInt(section.mode)),
      KeyValueLine("LetterboxInBreaks",
                   FormatBool(section.letterbox_in_breaks))>>
    \o (IF section.use_skin_sprites
        THEN <<KeyValueLine("UseSkinSprites",
                            FormatBool(section.use_skin_sprites))>>
        ELSE <<>>)
    \o (IF section.overlay_position # "NoChange"
        THEN <<KeyValueLine("OverlayPosition", <<section.overlay_position>>)>>
        ELSE <<>>)
    \o (IF section.skin_preference # None
        THEN <<KeyValueLine("SkinPreference", section.skin_preference[1])>>
        ELSE <<>>)
    \o (IF section.epilepsy_warning
        THEN <<KeyValueLine("EpilepsyWarning",
                            FormatBool(section.epilepsy_warning))>>
        ELSE <<>>)
    \o (IF section.countdown_offset # 0
        THEN <<KeyValueLine("CountdownOffset",
                            FormatInt(section.countdown_offset))>>
        ELSE <<>>)
    \o (IF section.special_style
        THEN <<KeyValueLine("SpecialStyle",
                            FormatBool(section.special_style))>>
        ELSE <<>>)
    \o <<KeyValueLine("WidescreenStoryboard",
                      FormatBool(section.widescreen_storyboard)),
         KeyValueLine("SamplesMatchPlaybackRate",
                      FormatBool(section.samples_match_playback_rate)),
         <<>>>>

(***************************************************************************)
(* [Editor]                                                                *)
(***************************************************************************)
\* The locals of parse_editor_section before the first line.
EditorStart ==
    [bookmarks |-> <<>>, distance_spacing |-> None, beat_divisor |-> None,
     grid_size |-> None, timeline_zoom |-> None]

\* Some(value.parse()?) stored in one field.
SetSomeField(section, name, parsed) ==
    IF parsed.ok THEN ParseOk([section EXCEPT ![name] = Some(parsed.value)])
    ELSE ParseErr("FieldValueParse")

\* The match of parse_editor_section on the field name.
EditorField(section, field, value) ==
    CASE field = <<"Bookmarks">> ->
            SetField(section, "bookmarks", parse_list_of(value, "f32"))
      [] field = <<"DistanceSpacing">> ->
            SetSomeField(section, "distance_spacing", ParseFloat(value))
      [] field = <<"BeatDivisor">> ->
            SetSomeField(section, "beat_divisor", ParseFloat(value))
      [] field = <<"GridSize">> ->
            SetSomeField(section, "grid_size", ParseI32(value))
      [] field = <<"TimelineZoom">> ->
            SetSomeField(section, "timeline_zoom", ParseFloat(value))
      [] OTHER -> ParseOk(section)

\* The end of parse_editor_section: three fields must have been given.
EditorFinish(section) ==
    IF \/ section.distance_spacing = None
       \/ section.beat_divisor = None
       \/ section.grid_size = None
    THEN ParseErr("UnspecifiedField")
    ELSE ParseOk([bookmarks |-> section.bookmarks,
                  distance_spacing |-> section.distance_spacing[1],
                  beat_divisor |-> section.beat_divisor[1],
                  grid_size |-> section.grid_size[1],
                  timeline_zoom |-> section.timeline_zoom])

FormatAll(values, Format(_)) == [i \in 1..Len(values) |-> Format(values[i])]

serialize_editor_section(section) ==
    <<SectionHeader("Editor")>>
    \o (IF section.bookmarks # <<>>
        THEN <<KeyValueLine("Bookmarks",
                   Join(FormatAll(section.bookmarks, FormatFloat), ","))>>
        ELSE <<>>)
    \o <<KeyValueLine("DistanceSpacing",
                      FormatFloat(section.distance_spacing)),
         KeyValueLine("BeatDivisor", FormatFloat(section.beat_divisor)),
         KeyValueLine("GridSize", FormatInt(section.grid_size))>>
    \o (IF section.timeline_zoom # None
        THEN <<KeyValueLine("TimelineZoom",
                            FormatFloat(section.timeline_zoom[1]))>>
        ELSE <<>>)
    \o <<<<>>>>

(***************************************************************************)
(* [Metadata]                                                              *)
(***************************************************************************)
\* MetadataSection::default()
MetadataDefault ==
    [title |-> <<>>, title_unicode |-> <<>>, artist |-> <<>>,
     artist_unicode |-> <<>>, creator |-> <<>>, version |-> <<>>,
     source |-> <<>>, tags |-> <<>>, beatmap_id |-> None,
     beatmap_set_id |-> None]

\* The match of parse_metadata_section on the field name.
MetadataField(section, field, value) ==
    CASE field = <<"Title">> -> SetField(section, "title", ParseOk(value))
      [] field = <<"TitleUnicode">> ->
            SetField(section, "title_unicode", ParseOk(value))
      [] field = <<"Artist">> -> SetField(section, "artist", ParseOk(value))
      [] field = <<"ArtistUnicode">> ->
            SetField(section, "artist_unicode", ParseOk(value))
      [] field = <<"Creator">> -> SetField(section, "creator", ParseOk(value))
      [] field = <<"Version">> -> SetField(section, "version", ParseOk(value))
      [] field = <<"Source">> -> SetField(section, "source", ParseOk(value))
      [] field = <<"Tags">> ->
            SetField(section, "tags", ParseOk(Split(value, " ")))
      [] field = <<"BeatmapID">> ->
            SetSomeField(section, "beatmap_id", ParseI32(value))
      [] field = <<"BeatmapSetID">> ->
            SetSomeField(section, "beatmap_set_id", ParseI32(value))
      [] OTHER -> ParseOk(section)

serialize_metadata_section(section) ==
    <<SectionHeader("Metadata"),
      KeyValueLine("Title", section.title),
      KeyValueLine("TitleUnicode", section.title_unicode),
      KeyValueLine("Artist", section.artist),
      KeyValueLine("ArtistUnicode", section.artist_unicode),
      KeyValueLine("Creator", section.creator),
      KeyValueLine("Version", section.version),
      KeyValueLine("Source", section.source)>>
    \o (IF section.tags # <<>>
        THEN <<KeyValueLine("Tags", Join(section.tags, " "))>>
        ELSE <<>>)
    \o (IF section.beatmap_id # None
        THEN <<KeyValueLine("BeatmapID", FormatInt(section.beatmap_id[1]))>>
        ELSE <<>>)
    \o (IF section.beatmap_set_id # None
        THEN <<KeyValueLine("BeatmapSetID",
                            FormatInt(section.beatmap_set_id[1]))>>
        ELSE <<>>)
    \o <<<<>>>>

(***************************************************************************)
(* [Difficulty]                                                            *)
(***************************************************************************)
\* DifficultySection::default()
DifficultyDefault ==
    [hp_drain_rate |-> FloatOfInt(0), circle_size |-> FloatOfInt(0),
     overall_difficulty |-> FloatOfInt(0), approach_rate |-> FloatOfInt(0),
     slider_multiplier |-> FloatOfInt(0), slider_tick_rate |-> FloatOfInt(0)]

\* The match of parse_difficulty_section on the field name.
DifficultyField(section, field, value) ==
    CASE field = <<"HPDrainRate">> ->
            SetField(section, "hp_drain_rate", ParseFloat(value))
      [] field = <<"CircleSize">> ->
            SetField(section, "circle_size", ParseFloat(value))
      [] field = <<"OverallDifficulty">> ->
            SetField(section, "overall_difficulty", ParseFloat(value))
      [] field = <<"ApproachRate">> ->
            SetField(section, "approach_rate", ParseFloat(value))
      [] field = <<"SliderMultiplier">> ->
            SetField(section, "slider_multiplier", ParseFloat(value))
      [] field = <<"SliderTickRate">> ->
            SetField(section, "slider_tick_rate", ParseFloat(value))
      [] OTHER -> ParseOk(section)

serialize_difficulty_section(section) ==
    <<SectionHeader("Difficulty"),
      KeyValueLine("HPDrainRate", FormatFloat(section.hp_drain_rate)),
      KeyValueLine("CircleSize", FormatFloat(section.circle_size)),
      KeyValueLine("OverallDifficulty",
                   FormatFloat(section.overall_difficulty)),
      KeyValueLine("ApproachRate", FormatFloat(section.approach_rate)),
      KeyValueLine("SliderMultiplier",
                   FormatFloat(section.slider_multiplier)),
      KeyValueLine("SliderTickRate", FormatFloat(section.slider_tick_rate)),
      <<>>>>

(***************************************************************************)
(* [Colours]                                                               *)
(***************************************************************************)
\* ColorsSection::default()
ColorsDefault ==
    [combo_colors |-> <<>>, slider_track_override |-> None,
     slider_border |-> None]

Color(r, g, b, a) == [r |-> r, g |-> g, b |-> b, a |-> a]

ColorOfNums(nums) ==
    IF ~nums.ok THEN ParseErr("ColorParse")
    ELSE IF Len(nums.value) = 3
    THEN ParseOk(Color(nums.value[1], nums.value[2], nums.value[3], None))
    ELSE IF Len(nums.value) = 4
    THEN ParseOk(Color(nums.value[1], nums.value[2], nums.value[3],
                       Some(nums.value[4])))
    ELSE ParseErr("ColorParse")

parse_color(line) == ColorOfNums(parse_list_of(line, "u8"))

\* Color::to_osu_string
ColorToOsuString(color) ==
    FormatInt(color.r) \o <<",">> \o FormatInt(color.g) \o <<",">>
    \o FormatInt(color.b)
    \o (IF color.a = None THEN <<>> ELSE <<",">> \o FormatInt(color.a[1]))

\* The body of the loop of parse_colors_section: the colour is parsed
\* before the field name is looked at.
StoreColor(section, field, color) ==
    IF ~color.ok THEN color
    ELSE IF field # <<>> /\ Head(field) = "Combo"
    THEN ParseOk([section EXCEPT !.combo_colors = Append(@, color.value)])
    ELSE IF field = <<"SliderTrackOverride">>
    THEN ParseOk([section EXCEPT
                     !.slider_track_override = Some(color.value)])
    ELSE IF field = <<"SliderBorder">>
    THEN ParseOk([section EXCEPT !.slider_border = Some(color.value)])
    ELSE ParseOk(section)

ColorsField(section, field, value) ==
    StoreColor(section, field, parse_color(value))

\* A writer that ends the section without the blank line.
ColorSectionWithoutBlank(section) == <<SectionHeader("Colours")>>

serialize_color_section(section) ==
    <<SectionHeader("Colours")>>
    \o [i \in 1..Len(section.combo_colors) |->
           <<"Combo">> \o FormatInt(i) \o <<":", " ">>
           \o ColorToOsuString(section.combo_colors[i])]
    \o (IF section.slider_track_override # None
        THEN <<KeyValueLine("SliderTrackOverride",
                   ColorToOsuString(section.slider_track_override[1]))>>
        ELSE <<>>)
    \o (IF section.slider_border # None
        THEN <<KeyValueLine("SliderBorder",
                            ColorToOsuString(section.slider_border[1]))>>
        ELSE <<>>)
    \o <<<<>>>>

\* A match that rejects every field.
ApplyNoField(name, section, field, value) == ParseErr("UnknownField")

\* The loop the four key-value parsers and the colour parser share: one
\* field-value pair per line, the first error ends the parse.
ApplyField(name, section, field, value) ==
    CASE name = "General" -> GeneralField(section, field, value)
      [] name = "Editor" -> EditorField(section, field, value)
      [] name = "Metadata" -> MetadataField(section, field, value)
      [] name = "Difficulty" -> DifficultyField(section, field, value)
      [] name = "Colours" -> ColorsField(section, field, value)

\* A loop that stops after its first line.
ParseFirstField(name, lines, section) ==
    IF lines = <<>> \/ ~parse_field_value_pair(Head(lines)).ok
    THEN ParseOk(section)
    ELSE ApplyField(name, section,
                    parse_field_value_pair(Head(lines)).value.field,
                    parse_field_value_pair(Head(lines)).value.value)

RECURSIVE ParseFields(_, _, _)
\* The rest of the loop after one line, or the error of the line.
ParseFieldsNext(name, lines, next) ==
    IF ~next.ok THEN next ELSE ParseFields(name, lines, next.value)

ParseFieldsLine(name, lines, section, pair) ==
    IF ~pair.ok THEN pair
    ELSE ParseFieldsNext(name, lines,
             ApplyField(name, section, pair.value.field, pair.value.value))

ParseFields(name, lines, section) ==
    IF lines = <<>> THEN ParseOk(section)
    ELSE ParseFieldsLine(name, Tail(lines), section,
                         parse_field_value_pair(Head(lines)))

parse_general_section(lines) == ParseFields("General", lines, GeneralDefault)
EditorFinishOf(section) ==
    IF section.ok THEN EditorFinish(section.value) ELSE section
parse_editor_section(lines) ==
    EditorFinishOf(ParseFields("Editor", lines, EditorStart))
parse_metadata_section(lines) ==
    ParseFields("Metadata", lines, MetadataDefault)
parse_difficulty_section(lines) ==
    ParseFields("Difficulty", lines, DifficultyDefault)
parse_colors_section(lines) == ParseFields("Colours", lines, ColorsDefault)

(***************************************************************************)
(* [Events]                                                                *)
(***************************************************************************)
StoryboardEventTypes ==
    {<<"3">>, <<"4">>, <<"5">>, <<"6">>, <<"Sample">>, <<"Sprite">>,
     <<"Animation">>, <<"F">>, <<"M">>, <<"MX">>, <<"MY">>, <<"S">>, <<"V">>,
     <<"R">>, <<"C">>, <<"L">>, <<"T">>, <<"P">>}

\* values.next(): the i-th piece, None past the end.
Nth(values, i) == IF i <= Len(values) THEN Some(values[i]) ELSE None
\* values.next().unwrap_or("0")
NthOrZero(values, i) == IF i <= Len(values) THEN values[i] ELSE <<"0">>

\* The Background and Video arms of parse_event.
ImageEvent(kind, event_type, start_time, filename, x_offset, y_offset) ==
    IF filename = None THEN ParseErr("NoFileName")
    ELSE IF ~x_offset.ok \/ ~y_offset.ok THEN ParseErr("InvalidInt")
    ELSE ParseOk(Some([event_type |-> event_type,
                       start_time |-> start_time,
                       params |-> [kind |-> kind,
                                   filename |-> filename[1],
                                   x_offset |-> x_offset.value,
                                   y_offset |-> y_offset.value]]))

ParseImageEvent(kind, event_type, start_time, values) ==
    ImageEvent(kind, event_type, start_time, Nth(values, 3),
               ParseI32(NthOrZero(values, 4)),
               ParseI32(NthOrZero(values, 5)))

\* parse_event: Ok(None) for a storyboard event, which is dropped.
BreakEvent(event_type, start_time, end_time) ==
    IF ~end_time.ok THEN ParseErr("SpecificEvent")
    ELSE ParseOk(Some([event_type |-> event_type,
                       start_time |-> start_time,
                       params |-> [kind |-> "Break",
                                   end_time |-> end_time.value]]))

\* The match of parse_event on the event type.
EventOfType(values, event_type, start_time) ==
    IF event_type \in StoryboardEventTypes THEN ParseOk(None)
    ELSE IF ~start_time.ok THEN ParseErr("InvalidStartTime")
    ELSE IF event_type = <<"0">>
    THEN ParseImageEvent("Background", event_type, start_time.value, values)
    ELSE IF event_type \in {<<"1">>, <<"Video">>}
    THEN ParseImageEvent("Video", event_type, start_time.value, values)
    ELSE IF event_type \in {<<"2">>, <<"Break">>}
    THEN BreakEvent(event_type, start_time.value,
                    IF Len(values) >= 3 THEN ParseFloat(values[3])
                    ELSE ParseErr("NoEndTime"))
    ELSE ParseErr("UnknownEventType")

EventOfValues(values) ==
    EventOfType(values, Trim(values[1]),
                IF Len(values) >= 2 THEN ParseFloat(values[2])
                ELSE ParseErr("NoStartTime"))

\* parse_event: Ok(None) for a storyboard event, which is dropped.
parse_event(line) == EventOfValues(Split(line, ","))

RECURSIVE ParseEvents(_, _)
ParseEventsPush(lines, events, event) ==
    IF ~event.ok THEN event ELSE ParseEvents(lines, events \o event.value)

ParseEvents(lines, events) ==
    IF lines = <<>> THEN ParseOk(events)
    ELSE ParseEventsPush(Tail(lines), events, parse_event(Head(lines)))

parse_events_section(lines) == ParseEvents(lines, <<>>)

serialize_event(event) ==
    event.event_type \o <<",">> \o FormatFloat(event.start_time) \o <<",">>
    \o (IF event.params.kind = "Break"
        THEN FormatFloat(event.params.end_time)
        ELSE event.params.filename \o <<",">>
             \o FormatInt(event.params.x_offset) \o <<",">>
             \o FormatInt(event.params.y_offset))

(***************************************************************************)
(* [TimingPoints]                                                          *)
(***************************************************************************)
\* TimingPoint::default()
TimingPointDefault ==
    [time |-> FloatOfInt(0), beat_length |-> FloatOfInt(0), meter |-> 0,
     sample_set |-> "Auto", sample_index |-> 0, volume |-> 0,
     uninherited |-> FALSE, effects |-> 0]

TimingPointFieldNames ==
    <<"time", "beat_length", "meter", "sample_set", "sample_index", "volume",
      "uninherited", "effects">>

\* The parser parse_timing_point uses for the i-th value.
ParseTimingPointValue(i, value) ==
    CASE i \in {1, 2} -> ParseFloat(value)
      [] i = 3 -> ParseI32(value)
      [] i = 4 -> ParseSampleBank(value)
      [] i = 5 -> ParseU32(value)
      [] i = 6 -> ParseU8(value)
      [] i = 7 -> ParseBool(value)
      [] i = 8 -> ParseU32(value)

RECURSIVE ParseTimingPointValues(_, _, _)
ParseTimingPointStore(values, i, timing_point, parsed) ==
    IF ~parsed.ok THEN ParseErr("TimingPointParse")
    ELSE ParseTimingPointValues(values, i + 1,
             [timing_point EXCEPT
                 ![TimingPointFieldNames[i]] = parsed.value])

ParseTimingPointValues(values, i, timing_point) ==
    IF i > Len(values) THEN ParseOk(timing_point)
    ELSE ParseTimingPointStore(values, i, timing_point,
                               ParseTimingPointValue(i, values[i]))

TimingPointOfValues(values) ==
    IF Len(values) < 2 THEN ParseErr("LessThan2Values")
    ELSE IF Len(values) > 8 THEN ParseErr("MoreThan8Values")
    ELSE ParseTimingPointValues(values, 1, TimingPointDefault)

parse_timing_point(line) == TimingPointOfValues(Split(line, ","))

RECURSIVE ParseTimingPoints(_, _)
ParseTimingPointsPush(lines, points, timing_point) ==
    IF ~timing_point.ok THEN timing_point
    ELSE ParseTimingPoints(lines, Append(points, timing_point.value))

ParseTimingPoints(lines, points) ==
    IF lines = <<>> THEN ParseOk(points)
    ELSE ParseTimingPointsPush(Tail(lines), points,
                               parse_timing_point(Head(lines)))

parse_timing_points_section(lines) == ParseTimingPoints(lines, <<>>)

serialize_timing_point(timing_point) ==
    FormatFloat(timing_point.time) \o <<",">>
    \o FormatFloat(timing_point.beat_length) \o <<",">>
    \o FormatInt(timing_point.meter) \o <<",">>
    \o FormatSampleBank(timing_point.sample_set) \o <<",">>
    \o FormatInt(timing_point.sample_index) \o <<",">>
    \o FormatInt(timing_point.volume) \o <<",">>
    \o FormatBool(timing_point.uninherited) \o <<",">>
    \o FormatInt(timing_point.effects)

(***************************************************************************)
(* [HitObjects]                                                            *)
(***************************************************************************)
\* HitSample::default()
HitSampleDefault ==
    [normal_set |-> "Auto", addition_set |-> "Auto", index |-> 0,
     volume |-> 0, filename |-> None]

HitSampleOf(normal_set, addition_set, index, volume, filename) ==
    IF ~normal_set.ok \/ ~addition_set.ok THEN ParseErr("InvalidSampleBank")
    ELSE IF ~index.ok \/ ~volume.ok THEN ParseErr("InvalidInt")
    ELSE ParseOk([normal_set |-> normal_set.value,
                  addition_set |-> addition_set.value,
                  index |-> index.value, volume |-> volume.value,
                  filename |-> filename])

HitSampleOfArgs(args) ==
    IF Len(args) < 2 THEN ParseErr("NotEnoughArguments")
    ELSE HitSampleOf(
             ParseSampleBank(args[1]),
             ParseSampleBank(args[2]),
             IF Len(args) = 5 THEN ParseU32(args[3]) ELSE ParseOk(0),
             IF Len(args) = 5 THEN ParseU32(args[4]) ELSE ParseOk(0),
             IF Len(args) = 5 /\ args[5] # <<>> THEN Some(args[5]) ELSE None)

parse_hit_sample(line) == HitSampleOfArgs(Split(line, ":"))

\* HitSample::to_osu_string
HitSampleToOsuString(sample) ==
    FormatSampleBank(sample.normal_set) \o <<":">>
    \o FormatSampleBank(sample.addition_set) \o <<":">>
    \o FormatInt(sample.index) \o <<":">> \o FormatInt(sample.volume)
    \o <<":">>
    \o (IF sample.filename = None THEN <<>> ELSE sample.filename[1])

\* vec![value; n]
Repeat(value, n) == [i \in 1..n |-> value]

\* The slider arm of parse_hit_object.  hit_sample_leftover is an Option.
\* The slider arm of parse_hit_object, once its pieces are parsed.
SliderParams(points, slides, length, ehitsounds, esamplesets, leftover) ==
    IF ~points.ok THEN ParseErr("CurvePointsParse")
    ELSE IF ~slides.ok THEN ParseErr("InvalidInt")
    ELSE IF ~length.ok THEN ParseErr("InvalidFloat")
    ELSE IF ~ehitsounds.ok THEN ParseErr("InvalidHitSoundList")
    ELSE IF ~esamplesets.ok THEN ParseErr("InvalidHitSampleSetList")
    ELSE ParseOk(
           [params |->
               [kind |-> "Slider",
                first_curve_type |-> points.value.first_curve_type,
                curve_points |-> points.value.curve_points,
                slides |-> slides.value,
                length |-> length.value,
                \* Just in case there were no edge hitsounds/samplesets
                edge_hitsounds |->
                    IF ehitsounds.value = <<>>
                    THEN Repeat(0, slides.value + 1)
                    ELSE ehitsounds.value,
                edge_samplesets |->
                    IF ehitsounds.value = <<>>
                    THEN Repeat(HitSampleSet("Auto", "Auto"),
                                slides.value + 1)
                    ELSE esamplesets.value],
            hit_sample_leftover |->
                IF Len(leftover) = 3 THEN Some(leftover[3]) ELSE None])

\* if let [ehitsounds, esamplesets, hit_sample] = leftover
SliderParamsAndEdges(curve_param, slides, length, leftover) ==
    SliderParams(parse_curve_points(curve_param), ParseU32(slides),
                 ParseFloat(length),
                 IF Len(leftover) = 3
                 THEN parse_list_of_with_sep(leftover[1], "|", "HitSound")
                 ELSE ParseOk(<<>>),
                 IF Len(leftover) = 3
                 THEN parse_list_of_with_sep(leftover[2], "|", "HitSampleSet")
                 ELSE ParseOk(<<>>),
                 leftover)

ParseSliderParams(object_params) ==
    IF Len(object_params) < 3 THEN ParseErr("WrongSliderParameterCount")
    ELSE SliderParamsAndEdges(object_params[1], object_params[2],
                              object_params[3],
                              SubSeq(object_params, 4, Len(object_params)))

\* The spinner arm of parse_hit_object.
SpinnerParams(end_time, leftover) ==
    IF ~end_time.ok THEN ParseErr("InvalidFloat")
    ELSE ParseOk([params |-> [kind |-> "Spinner",
                              end_time |-> end_time.value],
                  hit_sample_leftover |->
                      IF Len(leftover) = 1 THEN Some(leftover[1]) ELSE None])

ParseSpinnerParams(object_params) ==
    IF object_params = <<>> THEN ParseErr("WrongSpinnerParameterCount")
    ELSE SpinnerParams(ParseFloat(object_params[1]), Tail(object_params))

\* The hold arm of parse_hit_object.
HoldParams(end_time, hit_sample) ==
    IF ~end_time.ok THEN ParseErr("InvalidFloat")
    ELSE ParseOk([params |-> [kind |-> "Hold", end_time |-> end_time.value],
                  hit_sample_leftover |->
                      IF hit_sample # <<>> THEN Some(hit_sample) ELSE None])

HoldParamsOfPair(pair) ==
    IF pair = None THEN ParseErr("InvalidHold")
    ELSE HoldParams(ParseFloat(pair[1][1]), pair[1][2])

ParseHoldParams(object_params) ==
    IF Len(object_params) # 1 THEN ParseErr("WrongHoldParameterCount")
    ELSE HoldParamsOfPair(split_once(object_params[1], ":"))

\* The choice of arm in parse_hit_object, by the type byte.
ParseObjectParams(object_type, object_params) ==
    IF raw_is_hit_circle(object_type)
    THEN ParseOk([params |-> [kind |-> "HitCircle"],
                  hit_sample_leftover |->
                      IF Len(object_params) = 1 THEN Some(object_params[1])
                      ELSE None])
    ELSE IF raw_is_slider(object_type) THEN ParseSliderParams(object_params)
    ELSE IF raw_is_spinner(object_type) THEN ParseSpinnerParams(object_params)
    ELSE IF raw_is_osu_mania_hold(object_type)
    THEN ParseHoldParams(object_params)
    ELSE ParseErr("UnknownHitObjectType")

\* The HitObject built at the end of parse_hit_object.
HitObjectOf(x, y, time, decoded_type, hit_sound, params, hit_sample) ==
    ParseOk([x |-> x, y |-> y, time |-> time,
             object_type |-> decoded_type.object_type,
             combo_color_skip |-> decoded_type.combo_color_skip,
             hit_sound |-> hit_sound,
             object_params |-> params,
             hit_sample |-> hit_sample])

HitObjectWithSample(x, y, time, object_type, hit_sound, params, hit_sample) ==
    IF ~hit_sample.ok THEN ParseErr("HitSampleParse")
    ELSE HitObjectOf(x, y, time, ParseObjectType(object_type).value,
                     hit_sound, params, hit_sample.value)

\* The hit sample: the default when nothing is left over for it.
HitSampleOfLeftover(leftover) ==
    IF leftover = None \/ leftover = Some(<<>>) THEN ParseOk(HitSampleDefault)
    ELSE parse_hit_sample(leftover[1])

HitObjectWithParams(x, y, time, object_type, hit_sound, object_params) ==
    IF ~object_params.ok THEN object_params
    ELSE HitObjectWithSample(
             x, y, time, object_type, hit_sound, object_params.value.params,
             HitSampleOfLeftover(object_params.value.hit_sample_leftover))

HitObjectOfFields(x, y, time, object_type, hit_sound, object_params) ==
    IF ~x.ok \/ ~y.ok \/ ~object_type.ok \/ ~hit_sound.ok
    THEN ParseErr("InvalidInt")
    ELSE IF ~time.ok THEN ParseErr("InvalidFloat")
    ELSE HitObjectWithParams(
             x.value, y.value, time.value, object_type.value,
             hit_sound.value,
             ParseObjectParams(object_type.value, object_params))

HitObjectOfArgs(args) ==
    IF Len(args) < 5 THEN ParseErr("NotEnoughArguments")
    ELSE HitObjectOfFields(ParseI32(args[1]), ParseI32(args[2]),
                           ParseFloat(args[3]), ParseU8(args[4]),
                           ParseU8(args[5]), SubSeq(args, 6, Len(args)))

parse_hit_object(line) == HitObjectOfArgs(Split(line, ","))

RECURSIVE ParseHitObjects(_, _)
ParseHitObjectsPush(lines, hit_objects, parsed) ==
    IF ~parsed.ok THEN parsed
    ELSE ParseHitObjects(lines, Append(hit_objects, parsed.value))

ParseHitObjects(lines, hit_objects) ==
    IF lines = <<>> THEN ParseOk(hit_objects)
    ELSE ParseHitObjectsPush(Tail(lines), hit_objects,
                             parse_hit_object(Head(lines)))

parse_hit_objects_section(lines) == ParseHitObjects(lines, <<>>)

\* The line of a hit object; WriteCurvePoints writes a slider's curve points.
HitObjectLine(self, WriteCurvePoints(_, _)) ==
    LET params == self.object_params
    IN FormatInt(self.x) \o <<",">> \o FormatInt(self.y) \o <<",">>
       \o FormatFloat(self.time) \o <<",">>
       \o FormatInt(raw_object_type(self)) \o <<",">>
       \o FormatInt(self.hit_sound)
       \o (CASE params.kind = "HitCircle" -> <<",">>
             [] params.kind = "Slider" ->
                  <<",">>
                  \o WriteCurvePoints(params.first_curve_type,
                                      params.curve_points)
                  \o <<",">> \o FormatInt(params.slides)
                  \o <<",">> \o FormatFloat(params.length)
                  \o (IF params.edge_hitsounds # <<>>
                         /\ params.edge_samplesets # <<>>
                      THEN <<",">>
                           \o Join(FormatAll(params.edge_hitsounds,
                                             FormatInt), "|")
                           \o <<",">>
                           \o Join(FormatAll(params.edge_samplesets,
                                             HitSampleSetToOsuString), "|")
                      ELSE <<>>)
                  \o <<",">>
             [] params.kind = "Spinner" ->
                  <<",">> \o FormatFloat(params.end_time) \o <<",">>
             [] params.kind = "Hold" ->
                  <<",">> \o FormatFloat(params.end_time) \o <<":">>)
       \o HitSampleToOsuString(self.hit_sample)

serialize_hit_object(self) == HitObjectLine(self, serialize_curve_points)

\* deserialize_curve_points: the first curve type is written only in front
\* of a first point of another type.
deserialize_curve_points(first_curve_type, curve_points) ==
    IF curve_points = <<>> THEN <<>>
    ELSE (IF Head(curve_points).curve_type # first_curve_type
          THEN CurvePrefix(first_curve_type) ELSE <<>>)
         \o SerializePoints(curve_points, FALSE)

deserialize_hit_object(self) == HitObjectLine(self, deserialize_curve_points)

\* SliderPointsView::fmt: the nominal type is the first point's own type, so
\* the preprefix is never written; an empty chain is shown as "(empty)".
SliderPointsView(curve_points) ==
    IF curve_points = <<>>
    THEN <<"(", "e", "m", "p", "t", "y", ")">>
    ELSE deserialize_curve_points(Head(curve_points).curve_type, curve_points)

\* The two other writers of a chain, on the chains of SpecCurve.
DeserializeCurvePoints ==
    /\ pc = "serialize"
    /\ curve_text' = deserialize_curve_points(curve.first_curve_type,
                                              curve.curve_points)
    /\ pc' = "curve_deserialized"
    /\ UNCHANGED <<curve, curve_parsed>>
    /\ UNCHANGED notCurveVars

FmtSliderPointsView ==
    /\ pc = "serialize"
    /\ curve_text' = SliderPointsView(curve.curve_points)
    /\ pc' = "curve_viewed"
    /\ UNCHANGED <<curve, curve_parsed>>
    /\ UNCHANGED notCurveVars

CurveWriteNext ==
    \/ SerializeCurvePoints
    \/ DeserializeCurvePoints
    \/ FmtSliderPointsView
    \/ ParseCurvePoints

SpecCurveWrite == InitCurve /\ [][CurveWriteNext]_vars

(***************************************************************************)
(* The whole file: parse_osu_file and serialize_beatmap_file.              *)
(*                                                                         *)
(* A file is the sequence of its lines.  The serializer ends every line    *)
(* with "\r\n" and BufRead::lines takes both characters off again, so the  *)
(* line ends are left out of the lines.                                    *)
(***************************************************************************)
\* BeatmapFile::default()
BeatmapDefault ==
    [osu_file_format |-> 0, general |-> None, editor |-> None,
     metadata |-> None, difficulty |-> None, events |-> <<>>,
     timing_points |-> <<>>, colors |-> None, hit_objects |-> <<>>]

\* The filter on the reader: blank lines and // comments are skipped.
IsSkipped(line) ==
    LET l == Trim(line)
    IN l = <<>> \/ (Len(l) >= 2 /\ l[1] = "/" /\ l[2] = "/")

RECURSIVE FilterLines(_)
FilterLines(lines) ==
    IF lines = <<>> THEN <<>>
    ELSE (IF IsSkipped(Head(lines)) THEN <<>> ELSE <<Head(lines)>>)
         \o FilterLines(Tail(lines))

\* The position of the first section header at or after i, Len + 1 when
\* there is none: where the section parsers stop reading.
RECURSIVE NextHeader(_, _)
NextHeader(lines, i) ==
    IF i > Len(lines) THEN i
    ELSE IF IsSectionHeader(lines[i]) THEN i
    ELSE NextHeader(lines, i + 1)

\* One section parsed and stored, or its error.
StoreSection(bm, name, section, wrap) ==
    IF ~section.ok THEN ParseErr("SectionParse")
    ELSE ParseOk([bm EXCEPT ![name] = IF wrap THEN Some(section.value)
                                       ELSE section.value])

\* The match of parse_osu_file on the section header; None for a header
\* that is none of the eight.
ParseSection(bm, section_str, lines) ==
    IF section_str = SectionHeader("General")
    THEN Some(StoreSection(bm, "general", parse_general_section(lines), TRUE))
    ELSE IF section_str = SectionHeader("Editor")
    THEN Some(StoreSection(bm, "editor", parse_editor_section(lines), TRUE))
    ELSE IF section_str = SectionHeader("Metadata")
    THEN Some(StoreSection(bm, "metadata", parse_metadata_section(lines),
                           TRUE))
    ELSE IF section_str = SectionHeader("Difficulty")
    THEN Some(StoreSection(bm, "difficulty", parse_difficulty_section(lines),
                           TRUE))
    ELSE IF section_str = SectionHeader("Events")
    THEN Some(StoreSection(bm, "events", parse_events_section(lines), FALSE))
    ELSE IF section_str = SectionHeader("TimingPoints")
    THEN Some(StoreSection(bm, "timing_points",
                           parse_timing_points_section(lines), FALSE))
    ELSE IF section_str = SectionHeader("Colours")
    THEN Some(StoreSection(bm, "colors", parse_colors_section(lines), TRUE))
    ELSE IF section_str = SectionHeader("HitObjects")
    THEN Some(StoreSection(bm, "hit_objects",
                           parse_hit_objects_section(lines), FALSE))
    ELSE None

\* The while loop of parse_osu_file: lines[i] is the section header.
RECURSIVE ParseSections(_, _, _)
\* The end of one turn of the while loop: the file is done at a header
\* that is none of the eight, and fails with the error of a section.
ParseSectionsNext(lines, next, bm, stored) ==
    IF stored = None THEN ParseOk(bm)
    ELSE IF ~stored[1].ok THEN stored[1]
    ELSE ParseSections(lines, next, stored[1].value)

ParseSectionsUpTo(lines, i, next, bm) ==
    ParseSectionsNext(lines, next, bm,
        ParseSection(bm, lines[i], SubSeq(lines, i + 1, next - 1)))

ParseSections(lines, i, bm) ==
    IF i > Len(lines) THEN ParseOk(bm)
    ELSE ParseSectionsUpTo(lines, i, NextHeader(lines, i + 1), bm)

\* trim_start_matches('\u{feff}')
RECURSIVE TrimStartBom(_)
TrimStartBom(s) ==
    IF s # <<>> /\ Head(s) = "BOM" THEN TrimStartBom(Tail(s)) ELSE s

ParseVersioned(lines, version) ==
    IF ~version.ok THEN ParseErr("InvalidOsuFileFormat")
    ELSE ParseSections(lines, 2,
             [BeatmapDefault EXCEPT !.osu_file_format = version.value])

ParseFormatLine(lines, fformat_string) ==
    IF fformat_string = <<>> \/ Head(fformat_string) # "osu file format v"
    THEN ParseErr("InvalidOsuFileFormat")
    ELSE ParseVersioned(lines, ParseU32(Tail(fformat_string)))

ParseLines(lines) ==
    IF lines = <<>> THEN ParseErr("FileIsEmpty")
    ELSE ParseFormatLine(lines, TrimStartBom(lines[1]))

parse_osu_file(file) == ParseLines(FilterLines(file))

serialize_beatmap_file(bm_file) ==
    <<<<"osu file format v">> \o FormatInt(bm_file.osu_file_format), <<>>>>
    \o (IF bm_file.general # None
        THEN serialize_general_section(bm_file.general[1]) ELSE <<>>)
    \o (IF bm_file.editor # None
        THEN serialize_editor_section(bm_file.editor[1]) ELSE <<>>)
    \o (IF bm_file.metadata # None
        THEN serialize_metadata_section(bm_file.metadata[1]) ELSE <<>>)
    \o (IF bm_file.difficulty # None
        THEN serialize_difficulty_section(bm_file.difficulty[1]) ELSE <<>>)
    \o (IF bm_file.events # <<>>
        THEN <<SectionHeader("Events")>>
             \o FormatAll(bm_file.events, serialize_event) \o <<<<>>>>
        ELSE <<>>)
    \o (IF bm_file.timing_points # <<>>
        THEN <<SectionHeader("TimingPoints")>>
             \o FormatAll(bm_file.timing_points, serialize_timing_point)
             \o <<<<>>>>
        ELSE <<>>)
    \o (IF bm_file.colors # None
        THEN serialize_color_section(bm_file.colors[1]) ELSE <<>>)
    \o (IF bm_file.hit_objects # <<>>
        THEN <<SectionHeader("HitObjects")>>
             \o FormatAll(bm_file.hit_objects, serialize_hit_object)
        ELSE <<>>)

\* deserialize_beatmap_file, which BeatmapFile::deserialize calls: the
\* sections as serialize_beatmap_file writes them, but for the curve points
\* of a slider, under a header that says v128.
deserialize_beatmap_file(bm_file) ==
    <<<<"osu file format v">> \o FormatInt(128), <<>>>>
    \o (IF bm_file.general # None
        THEN serialize_general_section(bm_file.general[1]) ELSE <<>>)
    \o (IF bm_file.editor # None
        THEN serialize_editor_section(bm_file.editor[1]) ELSE <<>>)
    \o (IF bm_file.metadata # None
        THEN serialize_metadata_section(bm_file.metadata[1]) ELSE <<>>)
    \o (IF bm_file.difficulty # None
        THEN serialize_difficulty_section(bm_file.difficulty[1]) ELSE <<>>)
    \o (IF bm_file.events # <<>>
        THEN <<SectionHeader("Events")>>
             \o FormatAll(bm_file.events, serialize_event) \o <<<<>>>>
        ELSE <<>>)
    \o (IF bm_file.timing_points # <<>>
        THEN <<SectionHeader("TimingPoints")>>
             \o FormatAll(bm_file.timing_points, serialize_timing_point)
             \o <<<<>>>>
        ELSE <<>>)
    \o (IF bm_file.colors # None
        THEN serialize_color_section(bm_file.colors[1]) ELSE <<>>)
    \o (IF bm_file.hit_objects # <<>>
        THEN <<SectionHeader("HitObjects")>>
             \o FormatAll(bm_file.hit_objects, deserialize_hit_object)
        ELSE <<>>)

ParseOsuFile ==
    /\ pc = "parse"
    /\ beatmap' = parse_osu_file(text)
    /\ pc' = IF beatmap'.ok THEN "parsed" ELSE "rejected"
    /\ UNCHANGED <<text, written, reparsed>>
    /\ UNCHANGED notFileVars

SerializeBeatmapFile ==
    /\ pc = "parsed"
    /\ written' = serialize_beatmap_file(beatmap.value)
    /\ pc' = "written"
    /\ UNCHANGED <<text, beatmap, reparsed>>
    /\ UNCHANGED notFileVars

ReparseOsuFile ==
    /\ pc = "written"
    /\ reparsed' = parse_osu_file(written)
    /\ pc' = "reparsed"
    /\ UNCHANGED <<text, beatmap, written>>
    /\ UNCHANGED notFileVars

FileNext == ParseOsuFile \/ SerializeBeatmapFile \/ ReparseOsuFile

\* A caller overwrites the version of a parsed Document, as
\* cli_lazer_to_stable does with 14.
FormatVersions == {14, 128}

SetOsuFileFormat ==
    /\ pc = "parsed"
    /\ \E version \in FormatVersions \ {beatmap.value.osu_file_format} :
         beatmap' = ParseOk([beatmap.value EXCEPT
                                !.osu_file_format = version])
    /\ UNCHANGED <<pc, text, written, reparsed>>
    /\ UNCHANGED notFileVars

\* BeatmapFile::deserialize
DeserializeBeatmapFile ==
    /\ pc = "parsed"
    /\ written' = deserialize_beatmap_file(beatmap.value)
    /\ pc' = "deserialized"
    /\ UNCHANGED <<text, beatmap, reparsed>>
    /\ UNCHANGED notFileVars

WriteNext ==
    \/ ParseOsuFile
    \/ SetOsuFileFormat
    \/ SerializeBeatmapFile
    \/ DeserializeBeatmapFile
    \/ ReparseOsuFile

(***************************************************************************)
(* The files the model reads.  A file is a version line, a blank line or   *)
(* a comment, and up to two sections: one with Key: value lines and one    *)
(* with comma-separated lines.  The lines of a section are picked from a   *)
(* pool of lines that between them reach every field the serializer        *)
(* treats on its own, a few lines the parser rejects, and one it ignores.  *)
(***************************************************************************)
MaxPicked == 2      \* most lines picked from a pool for one section

\* The lines of pool picked by the sets of at most MaxPicked positions,
\* in the order of the pool.
PickFrom(pool) ==
    {SelectIndices(pool, picked, 1) :
        picked \in {K \in SUBSET (1..Len(pool)) : Cardinality(K) <= MaxPicked}}
PickSomeFrom(pool) == PickFrom(pool) \ {<<>>}

GeneralLines ==
    <<<<"AudioFilename", ":", " ", "songs", "\\", "audio.mp3">>,
      <<"AudioHash", ":", " ", "d41d8cd9">>,
      <<"PreviewTime", ":", " ", "1", "5", "0", "0">>,
      <<"StackLeniency", ":", " ", "0", ".", "5">>,
      <<"StoryFireInFront", ":", " ", "0">>,
      <<"AlwaysShowPlayfield", ":", " ", "1">>,
      <<"OverlayPosition", ":", " ", "Below">>,
      <<"CountdownOffset", ":", " ", "-", "5">>,
      <<"SkinPreference", ":", "Default">>,
      <<"EpilepsyWarning", ":", " ", "1">>,
      <<"Mode", ":", " ", "-", "1">>,
      <<"Foo", ":", "bar">>>>

EditorRequiredLines ==
    <<<<"DistanceSpacing", ":", " ", "1", ".", "2">>,
      <<"BeatDivisor", ":", " ", "4">>,
      <<"GridSize", ":", " ", "3", "2">>>>
EditorTexts ==
    {EditorRequiredLines,
     <<<<"Bookmarks", ":", " ", "1", "0", "0", "0", ",", "2", "5", "0", "0",
         ".", "5">>>> \o EditorRequiredLines,
     EditorRequiredLines \o <<<<"TimelineZoom", ":", " ", "1", ".", "5">>>>,
     SubSeq(EditorRequiredLines, 1, 2)}

MetadataTexts ==
    {<<<<"Title", ":", "Song">>>>,
     <<<<"Title", ":", "Song">>, <<"Tags", ":", "a", " ", "b">>,
       <<"BeatmapID", ":", "1", "2">>>>,
     <<<<"Artist", ":", " ", "Band">>, <<"Creator", ":", "me">>,
       <<"Version", ":", "Hard">>, <<"Tags", ":">>,
       <<"BeatmapSetID", ":", "-", "1">>>>}

DifficultyTexts ==
    {<<<<"HPDrainRate", ":", "5">>, <<"CircleSize", ":", "4">>,
       <<"OverallDifficulty", ":", "7", ".", "5">>,
       <<"ApproachRate", ":", "9">>,
       <<"SliderMultiplier", ":", "1", ".", "4">>,
       <<"SliderTickRate", ":", "1">>>>,
     <<<<"SliderMultiplier", ":", "1", ".", "4", "0">>>>}

ColoursTexts ==
    {<<<<"Combo", "1", " ", ":", " ", "2", "5", "5", ",", "0", ",", "0">>,
       <<"Combo", "2", " ", ":", " ", "0", ",", "2", "5", "5", ",", "0", ",",
         "1", "2", "8">>>>,
     <<<<"SliderBorder", ":", " ", "1", ",", "2", ",", "3">>>>,
     <<<<"Combo", "7", ":", "9", ",", "9", ",", "9">>,
       <<"SliderTrackOverride", ":", "0", ",", "0", ",", "0">>>>}

EventLines ==
    <<<<"0", ",", "0", ",", "bg.jpg", ",", "0", ",", "0">>,
      <<"Video", ",", "-", "1", "2", "0", ",", "intro.avi">>,
      <<"2", ",", "1", "0", "0", "0", ",", "2", "0", "0", "0">>,
      <<"Sprite", ",", "Background", ",", "Centre", ",", "sb.png">>,
      <<"9", ",", "0">>>>

TimingPointLines ==
    <<<<"0", ",", "5", "0", "0", ",", "4", ",", "2", ",", "0", ",",
        "1", "0", "0", ",", "1", ",", "0">>,
      <<"1", "0", "0", "0", ",", "-", "5", "0", ",", "4", ",", "2", ",", "1",
        ",", "6", "0", ",", "0", ",", "1">>,
      <<"2", "0", "0", "0", ",", "3", "3", "3", ".", "3">>>>

HitObjectLines ==
    <<\* a hit circle with the default sample
      <<"2", "5", "6", ",", "1", "9", "2", ",", "1", "0", "0", "0", ",", "1",
        ",", "0", ",", "0", ":", "0", ":", "0", ":", "0", ":">>,
      \* a hit circle that starts a combo and skips three colours
      <<"1", "0", ",", "2", "0", ",", "1", "5", "0", "0", ",", "5", "3", ",",
        "4", ",", "1", ":", "2", ":", "3", ":", "7", "0", ":", "hit.wav">>,
      \* a slider with edge sounds and edge sample sets
      <<"1", "0", "0", ",", "1", "0", "0", ",", "2", "0", "0", "0", ",", "2",
        ",", "0", ",", "B", "|", "2", "0", "0", ":", "2", "0", "0", "|", "L",
        "|", "2", "5", "0", ":", "2", "0", "0", ",", "1", ",", "1", "4", "0",
        ",", "2", "|", "0", ",", "0", ":", "0", "|", "1", ":", "2", ",",
        "0", ":", "0", ":", "0", ":", "0", ":">>,
      \* a slider without edge sounds
      <<"1", "0", "0", ",", "1", "0", "0", ",", "2", "0", "0", "0", ",", "6",
        ",", "0", ",", "P", "|", "1", "5", "0", ":", "1", "5", "0", "|",
        "2", "0", "0", ":", "1", "0", "0", ",", "2", ",", "7", "0", ".",
        "5">>,
      \* a slider without curve points
      <<"0", ",", "0", ",", "2", "5", "0", "0", ",", "2", ",", "0", ",", "L",
        ",", "1", ",", "1", "0">>,
      \* a slider with edge sounds and no edge sample sets
      <<"0", ",", "0", ",", "2", "6", "0", "0", ",", "2", ",", "0", ",", "L",
        "|", "5", ":", "5", ",", "1", ",", "1", "0", ",", "2", "|", "0",
        ",", ",", "1", ":", "0", ":", "0", ":", "0", ":">>,
      \* a spinner
      <<"2", "5", "6", ",", "1", "9", "2", ",", "3", "0", "0", "0", ",",
        "1", "2", ",", "0", ",", "4", "0", "0", "0", ",", "0", ":", "0", ":",
        "0", ":", "0", ":">>,
      \* a hold
      <<"6", "4", ",", "1", "9", "2", ",", "5", "0", "0", "0", ",", "1", "2",
        "8", ",", "0", ",", "5", "5", "0", "0", ":", "0", ":", "0", ":", "0",
        ":", "0", ":">>>>

Section(name, lines) == <<SectionHeader(name)>> \o lines
Sections(name, texts) == {Section(name, lines) : lines \in texts}

KeyValueSections ==
    Sections("General", PickFrom(GeneralLines))
    \cup Sections("Editor", EditorTexts)
    \cup Sections("Metadata", MetadataTexts)
    \cup Sections("Difficulty", DifficultyTexts)
    \cup Sections("Colours", ColoursTexts)

ListSections ==
    Sections("Events", PickSomeFrom(EventLines))
    \cup Sections("TimingPoints", PickSomeFrom(TimingPointLines))
    \cup Sections("HitObjects", PickSomeFrom(HitObjectLines))

\* Stable files put the Key: value sections first; the second head has a
\* byte order mark and a comment, and the sections the other way round.
Files ==
    {<<<<"osu file format v", "1", "4">>, <<>>>> \o a \o <<<<>>>> \o b :
        a \in KeyValueSections \cup {<<>>}, b \in ListSections \cup {<<>>}}
    \cup
    {<<<<"BOM", "osu file format v", "1", "2", "8">>,
       <<"/", "/", " ", "comment">>>> \o b \o a :
        a \in KeyValueSections \cup {<<>>}, b \in ListSections \cup {<<>>}}

\* Files with a section the parser has no name for, with or without a
\* section before it and a section after it.
VersionLine == <<"osu file format v", "1", "4">>
UnknownSection ==
    Section("Storyboard", <<<<"Layer", ":", " ", "Background">>>>)
UnknownSectionFiles ==
    {<<VersionLine, <<>>>> \o a \o UnknownSection \o <<<<>>>> \o b :
        a \in {<<>>, Section("General", <<GeneralLines[3], <<>>>>)},
        b \in {<<>>, Section("HitObjects", <<HitObjectLines[1]>>)}}

\* Files with one boolean field: a field of [General], or the seventh value
\* of a timing point.
BoolTokens ==
    {<<"0">>, <<"1">>, <<"2">>, <<"0", "1">>, <<"+", "1">>, <<"2", "5", "5">>,
     <<"2", "5", "6">>, <<"-", "1">>, <<"true">>, <<>>}
BoolFields ==
    {<<"LetterboxInBreaks", "letterbox_in_breaks">>,
     <<"StoryFireInFront", "story_fire_in_front">>,
     <<"UseSkinSprites", "use_skin_sprites">>,
     <<"AlwaysShowPlayfield", "always_show_playfield">>,
     <<"EpilepsyWarning", "epilepsy_warning">>,
     <<"SpecialStyle", "special_style">>,
     <<"WidescreenStoryboard", "widescreen_storyboard">>,
     <<"SamplesMatchPlaybackRate", "samples_match_playback_rate">>}
GeneralBoolFile(key, token) ==
    <<VersionLine, <<>>>> \o Section("General", <<KeyValueLine(key, token)>>)
TimingPointBoolFile(token) ==
    <<VersionLine, <<>>>>
    \o Section("TimingPoints",
               <<<<"0", ",", "5", "0", "0", ",", "4", ",", "2", ",", "0", ",",
                   "1", "0", "0", ",">> \o token \o <<",", "0">>>>)
BoolFiles ==
    {GeneralBoolFile(f[1], t) : f \in BoolFields, t \in BoolTokens}
    \cup {TimingPointBoolFile(t) : t \in BoolTokens}

InitFile ==
    /\ pc = "parse"
    /\ text \in Files \cup UnknownSectionFiles \cup BoolFiles
    /\ beatmap = <<>> /\ written = <<>> /\ reparsed = <<>>
    /\ NotFileIdle

SpecFile == InitFile /\ [][FileNext]_vars

\* Files with any of the eight sections, in the order the serializer
\* writes them, under either version.
SampleSections ==
    <<Section("General", <<GeneralLines[3], GeneralLines[10]>>),
      Section("Editor", EditorRequiredLines),
      Section("Metadata", <<<<"Title", ":", "Song">>>>),
      Section("Difficulty", <<<<"SliderMultiplier", ":", "1", ".", "4">>>>),
      Section("Events", <<EventLines[1], EventLines[3]>>),
      Section("TimingPoints", <<TimingPointLines[1]>>),
      Section("Colours",
              <<<<"Combo", "1", " ", ":", " ", "2", "5", "5", ",", "0", ",",
                  "0">>>>),
      Section("HitObjects", <<HitObjectLines[1], HitObjectLines[3]>>)>>

RECURSIVE SectionsText(_)
SectionsText(sections) ==
    IF sections = <<>> THEN <<>>
    ELSE Head(sections) \o <<<<>>>> \o SectionsText(Tail(sections))

SectionFiles ==
    {<<head, <<>>>> \o SectionsText(SelectIndices(SampleSections, picked, 1)) :
        head \in {VersionLine, <<"osu file format v", "1", "2", "8">>},
        picked \in SUBSET (1..Len(SampleSections))}

InitWrite ==
    /\ pc = "parse"
    /\ text \in SectionFiles
    /\ beatmap = <<>> /\ written = <<>> /\ reparsed = <<>>
    /\ NotFileIdle

SpecWrite == InitWrite /\ [][WriteNext]_vars

(***************************************************************************)
(* Two files that differ in the lines of one Key: value section: the       *)
(* second has the lines of the first in another order, or without one of   *)
(* them.  Each pool has two lines with the same key, a line with a key the *)
(* parser does not know and, but for [Editor], whose three required fields *)
(* take their place, a line the parser rejects.                            *)
(***************************************************************************)
MaxSectionLines == 4    \* most lines in the section

SectionPools ==
    [General |->
        <<<<"PreviewTime", ":", " ", "1", "5", "0", "0">>,
          <<"PreviewTime", ":", " ", "2", "0", "0", "0">>,
          <<"EpilepsyWarning", ":", " ", "1">>,
          <<"Foo", ":", "bar">>,
          <<"Mode", ":", " ", "-", "1">>>>,
     Editor |->
        <<<<"DistanceSpacing", ":", " ", "1", ".", "2">>,
          <<"BeatDivisor", ":", " ", "4">>,
          <<"GridSize", ":", " ", "3", "2">>,
          <<"GridSize", ":", " ", "1", "6">>,
          <<"Snap", ":", " ", "1">>>>,
     Metadata |->
        <<<<"Title", ":", "Song">>,
          <<"Title", ":", "Other">>,
          <<"Artist", ":", " ", "Band">>,
          <<"Genre", ":", "pop">>,
          <<"BeatmapID", ":", "none">>>>,
     Difficulty |->
        <<<<"HPDrainRate", ":", "5">>,
          <<"HPDrainRate", ":", "6">>,
          <<"CircleSize", ":", "4">>,
          <<"Hardness", ":", "9">>,
          <<"SliderTickRate", ":", "fast">>>>]

\* The sequences of k different lines of a pool, by their positions.
Picks(pool, k) ==
    {picked \in [1..k -> 1..Len(pool)] :
        \A i, j \in 1..k : i # j => picked[i] # picked[j]}
PickedLines(pool, picked) == [i \in 1..Len(picked) |-> pool[picked[i]]]
Range(f) == {f[i] : i \in DOMAIN f}
RemoveAt(s, i) == SubSeq(s, 1, i - 1) \o SubSeq(s, i + 1, Len(s))

SectionFile(name, lines) == <<VersionLine, <<>>>> \o Section(name, lines)

InitVariant ==
    /\ pc = "parse"
    /\ \E name \in DOMAIN SectionPools, k \in 0..MaxSectionLines :
         \E picked \in Picks(SectionPools[name], k) :
            /\ text = SectionFile(name,
                                  PickedLines(SectionPools[name], picked))
            /\ \/ \E moved \in Picks(SectionPools[name], k) :
                    /\ Range(moved) = Range(picked)
                    /\ variant_text =
                          SectionFile(name,
                              PickedLines(SectionPools[name], moved))
               \/ \E i \in 1..k :
                    variant_text =
                        SectionFile(name,
                            RemoveAt(PickedLines(SectionPools[name], picked),
                                     i))
    /\ beatmap = <<>> /\ written = <<>> /\ reparsed = <<>>
    /\ variant_beatmap = <<>>
    /\ IndexIdle /\ TypeIdle /\ DedupIdle /\ BezierIdle /\ LegacyIdle
    /\ CurveIdle

\* parse_osu_file on the second file.
ParseVariantOsuFile ==
    /\ pc \in {"parsed", "rejected"}
    /\ variant_beatmap' = parse_osu_file(variant_text)
    /\ pc' = "compared"
    /\ UNCHANGED variant_text
    /\ UNCHANGED notVariantVars

VariantNext == ParseOsuFile \/ ParseVariantOsuFile

SpecVariant == InitVariant /\ [][VariantNext]_vars

(***************************************************************************)
(* Claims about the round trip of a file.                                  *)
(***************************************************************************)
\* The fields the serializer has no line for hold their defaults, and
\* every slider has a curve point and an edge sample set.
IsSlider(object) == object.object_params.kind = "Slider"
Canonical(bm_file) ==
    /\ bm_file.general # None =>
          /\ bm_file.general[1].audio_hash = None
          /\ bm_file.general[1].story_fire_in_front
          /\ ~bm_file.general[1].always_show_playfield
    /\ \A i \in 1..Len(bm_file.hit_objects) :
          IsSlider(bm_file.hit_objects[i]) =>
              /\ bm_file.hit_objects[i].object_params.curve_points # <<>>
              /\ bm_file.hit_objects[i].object_params.edge_samplesets # <<>>

\* C1, what holds: for every Document obtained by parsing a text, whose
\* General section (if any) has no audio hash, story_fire_in_front set and
\* always_show_playfield unset, and whose sliders each have a curve point
\* and an edge sample set, parsing the text the serializer writes for it
\* succeeds and gives an equal Document.
C1_CanonicalRoundTrip ==
    (pc = "reparsed" /\ Canonical(beatmap.value)) => reparsed = beatmap

\* C1: for every Document obtained by parsing a text, parsing the text
\* the serializer writes for it gives an equal Document.
C1_RoundTrip == pc = "reparsed" => reparsed = beatmap

\* A file with a General section that sets a fractional stack leniency and
\* a slider has gone through the round trip and come back equal.
C1_Witness ==
    /\ pc = "reparsed"
    /\ Canonical(beatmap.value)
    /\ beatmap.value.general # None
    /\ beatmap.value.general[1].stack_leniency = [negative |-> FALSE, mantissa |-> 5, exponent |-> 1]
    /\ \E i \in 1..Len(beatmap.value.hit_objects) :
          IsSlider(beatmap.value.hit_objects[i])
    /\ reparsed = beatmap

(***************************************************************************)
(* Claims about what the parser accepts.                                   *)
(***************************************************************************)
\* The position of the first section header of a file that names none of
\* the eight sections, 0 when there is none.
SectionNames ==
    {"General", "Editor", "Metadata", "Difficulty", "Events", "TimingPoints",
     "Colours", "HitObjects"}
IsUnknownHeader(line) ==
    IsSectionHeader(line) /\ line \notin {SectionHeader(n) : n \in SectionNames}
UnknownHeaders(file) == {i \in 1..Len(file) : IsUnknownHeader(file[i])}
FirstUnknownHeader(file) ==
    IF UnknownHeaders(file) = {} THEN 0
    ELSE CHOOSE i \in UnknownHeaders(file) :
            \A j \in UnknownHeaders(file) : i <= j

\* C14: a bracketed section header whose name is not one of the eight
\* recognised section names makes the parse fail with an unknown-section
\* error that names the offending token; no Document is returned for that
\* text.
C14_UnknownSectionFails ==
    (pc # "parse" /\ UnknownHeaders(text) # {})
        => beatmap = ParseErr("UnknownSection")

\* What the code does: the parse ends at the header and returns the
\* Document of the lines before it.
C14_UnknownSectionEndsParse ==
    (pc \in {"parsed", "rejected"} /\ UnknownHeaders(text) # {})
        => beatmap = parse_osu_file(
                         SubSeq(text, 1, FirstUnknownHeader(text) - 1))

C14_DocumentOfUnknownSection ==
    /\ pc = "parsed"
    /\ UnknownHeaders(text) # {}
    /\ beatmap.ok
    /\ beatmap.value.general # None
    /\ beatmap.value.hit_objects = <<>>
    /\ \E i \in 1..Len(text) : text[i] = SectionHeader("HitObjects")

\* What a boolean field holding token must come to, by the claim.
BooleanIsZeroOrOne(token, ok, value) ==
    IF token = <<"0">> THEN ok /\ value = <<FALSE>>
    ELSE IF token = <<"1">> THEN ok /\ value = <<TRUE>>
    ELSE ~ok

\* What it comes to in the code: any u8, true when it is not 0.
BooleanIsNonZeroU8(token, ok, value) ==
    /\ ok = ParseU8(token).ok
    /\ ok => value = <<ParseU8(token).value # 0>>

GeneralBool(field) ==
    IF beatmap.ok THEN <<beatmap.value.general[1][field]>> ELSE <<>>
TimingPointBool ==
    IF beatmap.ok THEN <<beatmap.value.timing_points[1].uninherited>>
    ELSE <<>>

\* C17: a boolean field accepts exactly the tokens "0" (false) and "1"
\* (true); any other token, for example "2", is a field parse error and
\* not a boolean value.
C17_BooleansAreZeroOrOne ==
    pc \in {"parsed", "rejected"} =>
        /\ \A f \in BoolFields, t \in BoolTokens :
              text = GeneralBoolFile(f[1], t)
                  => BooleanIsZeroOrOne(t, beatmap.ok, GeneralBool(f[2]))
        /\ \A t \in BoolTokens :
              text = TimingPointBoolFile(t)
                  => BooleanIsZeroOrOne(t, beatmap.ok, TimingPointBool)

\* What the code does with the same fields.
C17_BooleansAreNonZeroU8 ==
    pc \in {"parsed", "rejected"} =>
        /\ \A f \in BoolFields, t \in BoolTokens :
              text = GeneralBoolFile(f[1], t)
                  => BooleanIsNonZeroU8(t, beatmap.ok, GeneralBool(f[2]))
        /\ \A t \in BoolTokens :
              text = TimingPointBoolFile(t)
                  => BooleanIsNonZeroU8(t, beatmap.ok, TimingPointBool)

C17_TwoIsTrue ==
    /\ pc = "parsed"
    /\ text = GeneralBoolFile("LetterboxInBreaks", <<"2">>)
    /\ beatmap.value.general[1].letterbox_in_breaks

(***************************************************************************)
(* Claims about what the serializer writes.                                *)
(***************************************************************************)
IsWritten == pc \in {"written", "deserialized"}

\* C18: the header written by the serializer carries the Document's format
\* version: after a caller sets the Document's version to N, the first line
\* of the output is `osu file format vN`, followed by a blank line.
C18_HeaderCarriesVersion ==
    IsWritten =>
        /\ written[1] = <<"osu file format v">>
                            \o FormatNat(beatmap.value.osu_file_format)
        /\ written[2] = <<>>

\* What the code does: serialize_beatmap_file writes the Document's
\* version, deserialize_beatmap_file writes 128.
C18_HeaderOfEitherWriter ==
    IsWritten =>
        /\ written[1] = <<"osu file format v">>
                            \o (IF pc = "written"
                                THEN FormatNat(beatmap.value.osu_file_format)
                                ELSE <<"1", "2", "8">>)
        /\ written[2] = <<>>

C18_DeserializedAsV128 ==
    /\ pc = "deserialized"
    /\ text[1] = <<"osu file format v", "1", "2", "8">>
    /\ beatmap.value.osu_file_format = 14
    /\ written[1] = <<"osu file format v", "1", "2", "8">>

\* The positions of the section headers in the output, and the last line
\* of the section that starts at a header.
WrittenHeaders == {i \in 1..Len(written) : IsSectionHeader(written[i])}
SectionEnd(i) == NextHeader(written, i + 1) - 1
IsLastWritten(i) == SectionEnd(i) = Len(written)

KeyValueSectionNames == {"General", "Editor", "Metadata", "Difficulty"}

\* The keys the match of each section parser names.
RecognisedKeys(name) ==
    CASE name = "General" ->
           {"AudioFilename", "AudioLeadIn", "AudioHash", "PreviewTime",
            "Countdown", "SampleSet", "StackLeniency", "Mode",
            "LetterboxInBreaks", "StoryFireInFront", "UseSkinSprites",
            "AlwaysShowPlayfield", "OverlayPosition", "SkinPreference",
            "EpilepsyWarning", "CountdownOffset", "SpecialStyle",
            "WidescreenStoryboard", "SamplesMatchPlaybackRate"}
      [] name = "Editor" ->
           {"Bookmarks", "DistanceSpacing", "BeatDivisor", "GridSize",
            "TimelineZoom"}
      [] name = "Metadata" ->
           {"Title", "TitleUnicode", "Artist", "ArtistUnicode", "Creator",
            "Version", "Source", "Tags", "BeatmapID", "BeatmapSetID"}
      [] name = "Difficulty" ->
           {"HPDrainRate", "CircleSize", "OverallDifficulty", "ApproachRate",
            "SliderMultiplier", "SliderTickRate"}

\* The first section header of a file; the files compared have one section.
HeaderLine(file) == NextHeader(file, 1)
SectionNameOf(file) == file[HeaderLine(file)][2]
SectionLinesOf(file) == SubSeq(file, HeaderLine(file) + 1, Len(file))
InKeyValueSection(file) ==
    /\ Len(file) >= HeaderLine(file)
    /\ \E name \in KeyValueSectionNames :
          file[HeaderLine(file)] = SectionHeader(name)

\* The key of a Key: value line: what is before the first colon, without
\* the spaces around it.
KeyOf(line) == Trim(split_once(line, ":")[1][1])
IsKeyValueLine(line) == split_once(line, ":") # None

IsUnknownKeyLine(file, i) ==
    /\ InKeyValueSection(file)
    /\ i > HeaderLine(file) /\ i <= Len(file)
    /\ IsKeyValueLine(file[i])
    /\ \A key \in RecognisedKeys(SectionNameOf(file)) :
          KeyOf(file[i]) # <<key>>

\* C15: in the General, Editor, Metadata and Difficulty sections, a
\* `Key: value` line whose key is not recognised never fails the parse: the
\* resulting Document equals the one obtained from the same text with that
\* line removed.
C15_UnknownKeyIsIgnored ==
    pc = "compared" =>
        \A i \in 1..Len(text) :
            (IsUnknownKeyLine(text, i) /\ variant_text = RemoveAt(text, i))
                => beatmap = variant_beatmap

C15_Witness ==
    /\ pc = "compared"
    /\ text[HeaderLine(text)] = SectionHeader("Editor")
    /\ IsUnknownKeyLine(text, HeaderLine(text) + 2)
    /\ variant_text = RemoveAt(text, HeaderLine(text) + 2)
    /\ beatmap.ok
    /\ beatmap.value.editor # None
    /\ beatmap = variant_beatmap

Count(s, x) == Cardinality({i \in 1..Len(s) : s[i] = x})

\* The second file has the lines of the first file's section in some order.
IsPermuted(file, other) ==
    /\ InKeyValueSection(file)
    /\ Len(other) = Len(file)
    /\ SubSeq(other, 1, HeaderLine(file)) = SubSeq(file, 1, HeaderLine(file))
    /\ \A i \in (HeaderLine(file) + 1)..Len(file) :
          Count(SectionLinesOf(other), file[i])
              = Count(SectionLinesOf(file), file[i])

\* No two Key: value lines of the section have the same key.
NoRepeatedKey(file) ==
    \A i, j \in (HeaderLine(file) + 1)..Len(file) :
        (i # j /\ IsKeyValueLine(file[i]) /\ IsKeyValueLine(file[j]))
            => KeyOf(file[i]) # KeyOf(file[j])

\* C16, what holds: permuting the key-value lines inside a General, Editor,
\* Metadata or Difficulty section in which no key occurs twice yields a
\* Document equal to the one parsed from the original line order, or fails
\* as the original does.
C16_PermutationOfDistinctKeys ==
    (pc = "compared" /\ IsPermuted(text, variant_text)
        /\ NoRepeatedKey(text))
        => beatmap = variant_beatmap

\* C16: permuting the key-value lines inside a General, Editor, Metadata or
\* Difficulty section yields a Document equal to the one parsed from the
\* original line order.
C16_PermutationOfLines ==
    (pc = "compared" /\ IsPermuted(text, variant_text))
        => beatmap = variant_beatmap

C16_Witness ==
    /\ pc = "compared"
    /\ IsPermuted(text, variant_text)
    /\ NoRepeatedKey(text)
    /\ text # variant_text
    /\ Len(text) = HeaderLine(text) + 3
    /\ text[HeaderLine(text) + 1] = variant_text[HeaderLine(text) + 3]
    /\ beatmap.ok
    /\ beatmap.value.general # None
    /\ beatmap.value.general[1].epilepsy_warning
    /\ beatmap = variant_beatmap

(***************************************************************************)
(* Claims about the letters a writer puts before the points of a chain.    *)
(***************************************************************************)
CurveIsWritten ==
    pc \in {"parse", "parsed", "curve_deserialized", "curve_viewed"}
CurveTokens == Split(curve_text, "|")
IsCurveLetter(token) == token \in {<<"B">>, <<"C">>, <<"L">>, <<"P">>}
IsPointToken(token) == \E i \in 1..Len(token) : token[i] = ":"

\* The token of the k-th point, and the tokens between it and the point
\* before it (or the start of the text).
PointTokenIndex(k) ==
    CHOOSE i \in 1..Len(CurveTokens) :
        /\ IsPointToken(CurveTokens[i])
        /\ Cardinality({j \in 1..i : IsPointToken(CurveTokens[j])}) = k
LettersBefore(k) ==
    SubSeq(CurveTokens,
           IF k = 1 THEN 1 ELSE PointTokenIndex(k - 1) + 1,
           PointTokenIndex(k) - 1)

PointType(k) == curve.curve_points[k].curve_type
OwnLetters(k) ==
    IF PointType(k) = "Inherit" THEN <<>>
    ELSE << <<CurveLetter(PointType(k))>> >>

\* The nominal first curve type of the chain a writer was given.
NominalType ==
    IF pc = "curve_viewed" THEN PointType(1) ELSE curve.first_curve_type
NominalIsWritten == Len(LettersBefore(1)) > Len(OwnLetters(1))

\* C21 (as claimed): a letter is written before a point exactly when the
\* point's curve type differs from the type of the point before it, and the
\* nominal first curve type's letter is written before the first point only
\* if the first point's own type differs from the nominal type.
C21_LetterOnTypeChange ==
    (CurveIsWritten /\ curve.curve_points # <<>>) =>
        /\ \A k \in 2..Len(curve.curve_points) :
              (LettersBefore(k) # <<>>) <=> (PointType(k) # PointType(k - 1))
        /\ NominalIsWritten => PointType(1) # NominalType

\* C21 (amended): every writer puts a point's own letter before it exactly
\* when the point's type is not Inherit, whatever the type of the point
\* before it; serialize_curve_points writes the nominal letter first whenever
\* the nominal type is not Inherit, deserialize_curve_points and
\* SliderPointsView only if the first point's own type differs from it.
NominalLetters ==
    IF NominalType = "Inherit" THEN <<>>
    ELSE IF pc \in {"parse", "parsed"} \/ PointType(1) # NominalType
    THEN << <<CurveLetter(NominalType)>> >>
    ELSE <<>>

C21_LetterUnlessInherit ==
    (CurveIsWritten /\ curve.curve_points # <<>>) =>
        /\ Cardinality({i \in 1..Len(CurveTokens) :
                           IsPointToken(CurveTokens[i])})
             = Len(curve.curve_points)
        /\ \A k \in 2..Len(curve.curve_points) :
              LettersBefore(k) = OwnLetters(k)
        /\ LettersBefore(1) = NominalLetters \o OwnLetters(1)

\* Two points of the same type other than Inherit, each with its letter, and
\* the nominal letter before a first point of the nominal type.
C21_Witness ==
    /\ pc = "parse"
    /\ Len(curve.curve_points) = 2
    /\ PointType(1) = "Bezier" /\ PointType(2) = "Bezier"
    /\ curve.first_curve_type = "Bezier"
    /\ LettersBefore(1) = << <<"B">>, <<"B">> >>
    /\ LettersBefore(2) = << <<"B">> >>

(***************************************************************************)
(* Claims about the end points and the failures of                         *)
(* convert_to_bezier_anchors.                                              *)
(***************************************************************************)
Converted == pc = "returned" /\ anchors.kind = "ok"

\* C25: for every chain of two or more points that convert_to_bezier_anchors
\* converts successfully, whatever the leading curve type, the result is
\* non-empty, its first point is the chain's first point and its last point
\* is the chain's last point.
C25_EndPointsAreKept ==
    (Converted /\ Len(control_points) >= 2) =>
        /\ anchors.value # <<>>
        /\ anchors.value[1] = to_point(control_points[1])
        /\ anchors.value[Len(anchors.value)]
             = to_point(control_points[Len(control_points)])

\* What the code does keep: the end points of every chain of two or more
\* points other than the Catmull chain of exactly two.
C25_EndPointsAreKeptButCatmullPair ==
    (/\ Converted
     /\ Len(control_points) >= 2
     /\ ~(control_points[1].curve_type = "Catmull"
          /\ Len(control_points) = 2)) =>
        /\ anchors.value # <<>>
        /\ anchors.value[1] = to_point(control_points[1])
        /\ anchors.value[Len(anchors.value)]
             = to_point(control_points[Len(control_points)])

C25_CatmullPairIsEmpty ==
    /\ Converted
    /\ Len(control_points) = 2
    /\ control_points[1].curve_type = "Catmull"
    /\ anchors.value = <<>>

\* C26: convert_to_bezier_anchors never fails abruptly: for the empty chain
\* it returns NoControlPoints, and for every non-empty chain, of any length
\* and any leading curve type, it returns either a point list or
\* PerfectCurveWithMoreThan3Points.
C26_NeverFailsAbruptly ==
    pc = "returned" =>
        IF control_points = <<>>
        THEN anchors = BezierErr("NoControlPoints")
        ELSE \/ anchors.kind = "ok"
             \/ anchors = BezierErr("PerfectCurveWithMoreThan3Points")

\* What the code does: the same, but for the Catmull chain of one point.
C26_FailsOnlyOnOneCatmullPoint ==
    pc = "returned" =>
        IF control_points = <<>>
        THEN anchors = BezierErr("NoControlPoints")
        ELSE IF Len(control_points) = 1
                /\ control_points[1].curve_type = "Catmull"
        THEN anchors = BezierPanic
        ELSE \/ anchors.kind = "ok"
             \/ anchors = BezierErr("PerfectCurveWithMoreThan3Points")

C26_OneCatmullPointPanics ==
    /\ pc = "returned"
    /\ Len(control_points) = 1
    /\ anchors = BezierPanic

(***************************************************************************)
(* Claims about the failures of between.                                   *)
(***************************************************************************)
\* C28: between never fails: when no element can satisfy the bounds,
\* including when the range's start is greater than its end, it returns an
\* empty slice.
C28_BetweenNeverFails ==
    pc = "returned" =>
        /\ found # Panic
        /\ LinearScan(slice, time_range) = <<>> => found = Slice(<<>>)

\* What the code does: it fails only on a range whose start is not before
\* its end, and then only when elements lie from the end up to the start.
C28_FailsOnlyOnReversedRange ==
    (pc = "returned" /\ found = Panic) =>
        /\ time_range.start_bound.kind # "Unbounded"
        /\ time_range.end_bound.kind # "Unbounded"
        /\ time_range.start_bound.v >= time_range.end_bound.v
        /\ \E i \in 1..Len(slice) :
              /\ time_range.end_bound.v <= slice[i].time
              /\ slice[i].time <= time_range.start_bound.v

C28_ReversedRangePanics ==
    /\ pc = "returned"
    /\ time_range.start_bound.kind = "Included"
    /\ time_range.end_bound.kind = "Excluded"
    /\ time_range.start_bound.v > time_range.end_bound.v
    /\ found = Panic

(***************************************************************************)
(* Claims about the type byte of a hit object read from a file.            *)
(***************************************************************************)
\* The byte of a file was parsed and written back (nothing was decoded from
\* a byte the serializer wrote).
WrittenBack == pc = "done" /\ decoded = <<>>

\* C29 (as claimed): for every type byte that parse_hit_object accepts, the
\* type byte written back for the parsed hit object equals the byte that was
\* read.
C29_WrittenByteIsReadByte ==
    WrittenBack => reencoded = type_byte

\* A byte with exactly one of the four kind bits, and with skip bits only
\* next to the new-combo bit.
KindBits(byte) ==
    Bit(byte, RAW_TYPE_HIT_CIRCLE) + Bit(byte, RAW_TYPE_SLIDER)
        + Bit(byte, RAW_TYPE_SPINNER) + Bit(byte, RAW_TYPE_OSU_MANIA_HOLD)
SkipBits(byte) == Bit(byte, 4) + Bit(byte, 5) + Bit(byte, 6)
IsCanonicalByte(byte) ==
    /\ KindBits(byte) = 1
    /\ Bit(byte, RAW_NEW_COMBO) = 0 => SkipBits(byte) = 0

\* C29 (amended): the type byte written back equals the byte that was read
\* exactly for the accepted bytes that have one kind bit and no skip bits
\* without the new-combo bit; parse_hit_object accepts every byte with at
\* least one kind bit.
C29_CanonicalByteIsWrittenBack ==
    /\ WrittenBack => (reencoded = type_byte <=> IsCanonicalByte(type_byte))
    /\ WrittenBack => KindBits(type_byte) >= 1
    /\ pc = "rejected" => KindBits(type_byte) = 0

\* A slider that starts a combo and skips five colours.
C29_Witness ==
    /\ WrittenBack
    /\ type_byte = 86
    /\ hit_object.value.object_type = "Slider"
    /\ hit_object.value.combo_color_skip = Some(5)
    /\ reencoded = 86

(***************************************************************************)
(* Claims about the end of the closeness groups.                           *)
(***************************************************************************)
GroupsPartition ==
    /\ \A g \in 1..Len(groups) : groups[g] # <<>>
    /\ Concat(groups) \o grest = slice

\* C30: iterating the closeness groups of any finite slice ends after
\* finitely many steps, every yielded group is non-empty, and the groups
\* concatenated in the order yielded are exactly the input slice.
C30_GroupsPartitionAndEnd ==
    /\ []GroupsPartition
    /\ <>(pc = "ended" /\ Concat(groups) = slice)

\* What the code does: the same on every slice that holds no NaN timestamp.
C30_GroupsOfNumbersPartitionAndEnd ==
    (\A i \in 1..Len(slice) : slice[i].time # NaN) =>
        /\ []GroupsPartition
        /\ <>(pc = "ended" /\ Concat(groups) = slice)

\* An element with a NaN timestamp is not close to itself: the iterator
\* yields the empty group, keeps the whole slice and does so again.
C30_EmptyGroupsForever ==
    /\ pc = "iterating"
    /\ slice # <<>> /\ grest = slice
    /\ Len(groups) = Len(slice) + 1
    /\ \A g \in 1..Len(groups) : groups[g] = <<>>

====
